---- MODULE Spec2Model ----
(***************************************************************************)
(* CarDocAI backend: the audio fault matcher, the engine-sound analysis   *)
(* call, the dashboard-image analysis call and the engine-sound request   *)
(* flow, as state machines over small input domains.                      *)
(*                                                                         *)
(* Numbers.  Python floats are modelled by exact integers in fixed units: *)
(*   - a fault confidence is counted in 1/300 (ConfOne = 1.0), so that    *)
(*     0.3, 0.2, 0.2 * n/3 and strength * 0.3 are all whole numbers;      *)
(*   - a pattern strength is counted in tenths (StrengthOne = 1.0);       *)
(*   - a quality score is counted in thousandths, as round(score, 3).     *)
(***************************************************************************)
EXTENDS Integers, Sequences, FiniteSets, TLC

VARIABLES
    fm_pc,               \* fault matcher: "idle" or "done"
    frequency_analysis,  \* argument of _detect_engine_faults
    sound_patterns,      \* argument of _detect_engine_faults
    detected_faults,     \* list returned by _detect_engine_faults
    accumulated,         \* the loop's local `confidence`, per signature, at line 425
    urgency_input,       \* argument of _determine_urgency_level
    urgency_level,       \* value returned by _determine_urgency_level
    a_pc,                \* analyze_engine_sound: the statement the call stands at
    audio_data,          \* its argument: the uploaded bytes
    temp_files,          \* the temporary files that exist on disk
    temp_file_path,      \* its local temp_file_path, "unbound" until line 136
    audio_y,             \* its local y, the decoded waveform
    parts,               \* its locals audio_quality ... anomaly_analysis (steps 1-6)
    pending,             \* what the inner try block is leaving with, while in `finally`
    audio_result,        \* the value returned to the caller
    a_path,              \* history: the exit path the call took
    i_pc,                \* analyze_dashboard_image: the statement the call stands at
    image_data,          \* its argument: the uploaded bytes
    dashboard_detected,  \* its local dashboard_detected
    detected_lights,     \* its local detected_lights
    image_quality,       \* its local image_quality
    image_result,        \* the value returned to the caller
    req_pc,              \* diagnose_engine_sound: the statement the request stands at
    user_known,          \* whether db.get_user_by_id finds the user_id of the form
    audio,               \* the upload: its declared content_type and its filename
    events,              \* history: the steps the request has taken, in order
    response,            \* the HTTP response of the request
    audio_analysis,      \* its local audio_analysis: the result of the core analysis
    gemini_analysis,     \* its local gemini_analysis: the result of the narration service
    search_keywords,     \* the argument of youtube_service.search_tutorials
    val_input,           \* validate_audio_format: its arguments content_type, filename
    val_result,          \* the pair it returned
    dedup_pc,            \* _remove_overlapping_lights: "idle" or "done"
    candidate_lights,    \* its argument lights
    kept_lights,         \* the list it returned
    lights_pc,           \* _detect_warning_lights: "idle" or "done"
    regions,             \* the coloured regions of its argument image
    reported_lights,     \* the lights of all _detect_color_lights calls, concatenated
    warning_lights,      \* the list it returned
    self_engine_fault_patterns,\* AudioAnalyzer.engine_fault_patterns of the shared instance
    self_supported_formats,\* AudioAnalyzer.supported_formats of the shared instance
    self_color_ranges,   \* ImageAnalyzer.color_ranges of the shared instance
    calls,               \* the calls in flight on the shared instances, by caller
    pat_pc,              \* _detect_sound_patterns: the statement the call stands at
    pat_strengths,       \* what each detector computes for the clip when nothing fails (tenths)
    pat_failure,         \* the computation that raises during this call, or "none"
    pattern_list,        \* its local patterns, and at "done" the list it returned
    anom_pc,             \* _analyze_anomaly_duration: "idle" or "done"
    rms,                 \* its local rms: the energy level of each frame
    audio_len,           \* len(y), in samples
    anomaly_regions,     \* its local anomaly_regions, before the slice of line 552
    anomaly_result,      \* the dict it returned
    dash_pc,             \* the dashboard narration: "idle" or how its result was built
    dash_lights,         \* its argument detected_lights
    dash_analysis,       \* the analysis it returned
    drq_pc,              \* diagnose_dashboard_image: the statement it is at
    drq_user_known,      \* whether db.get_user_by_id finds its user_id
    image_upload,        \* its upload: the content type and what the bytes decode to
    image_analysis,      \* its local image_analysis
    dashboard_advice,    \* its local gemini_analysis
    saved_records,       \* the diagnostic records it handed to db.save_diagnostic_record
    drq_response         \* what it answered

fm_vars == <<fm_pc, frequency_analysis, sound_patterns, detected_faults, accumulated>>
urg_vars == <<urgency_input, urgency_level>>
audio_vars == <<a_pc, audio_data, temp_files, temp_file_path, audio_y, parts, pending,
                audio_result, a_path>>
image_vars == <<i_pc, image_data, dashboard_detected, detected_lights, image_quality,
                image_result>>
req_vars == <<req_pc, user_known, audio, events, response, audio_analysis,
              gemini_analysis, search_keywords>>
val_vars == <<val_input, val_result>>
dedup_vars == <<dedup_pc, candidate_lights, kept_lights>>
lights_vars == <<lights_pc, regions, reported_lights, warning_lights>>
tbl_vars == <<self_engine_fault_patterns, self_supported_formats, self_color_ranges, calls>>
pat_vars == <<pat_pc, pat_strengths, pat_failure, pattern_list>>
anom_vars == <<anom_pc, rms, audio_len, anomaly_regions, anomaly_result>>
dash_vars == <<dash_pc, dash_lights, dash_analysis>>
drq_vars == <<drq_pc, drq_user_known, image_upload, image_analysis, dashboard_advice,
              saved_records, drq_response>>
vars == <<fm_vars, urg_vars, audio_vars, image_vars, req_vars, val_vars, dedup_vars,
          lights_vars, tbl_vars, pat_vars, anom_vars, dash_vars, drq_vars>>

\* what each state machine leaves alone
not_fm == <<urg_vars, audio_vars, image_vars, req_vars, val_vars, dedup_vars,
            lights_vars, tbl_vars, pat_vars, anom_vars, dash_vars, drq_vars>>
not_urg == <<fm_vars, audio_vars, image_vars, req_vars, val_vars, dedup_vars,
             lights_vars, tbl_vars, pat_vars, anom_vars, dash_vars, drq_vars>>
not_audio == <<fm_vars, urg_vars, image_vars, req_vars, val_vars, dedup_vars,
               lights_vars, tbl_vars, pat_vars, anom_vars, dash_vars, drq_vars>>
not_image == <<fm_vars, urg_vars, audio_vars, req_vars, val_vars, dedup_vars,
               lights_vars, tbl_vars, pat_vars, anom_vars, dash_vars, drq_vars>>
not_req == <<fm_vars, urg_vars, audio_vars, image_vars, val_vars, dedup_vars,
             lights_vars, tbl_vars, pat_vars, anom_vars, dash_vars, drq_vars>>
not_val == <<fm_vars, urg_vars, audio_vars, image_vars, req_vars, dedup_vars,
             lights_vars, tbl_vars, pat_vars, anom_vars, dash_vars, drq_vars>>
not_dedup == <<fm_vars, urg_vars, audio_vars, image_vars, req_vars, val_vars,
               lights_vars, tbl_vars, pat_vars, anom_vars, dash_vars, drq_vars>>
not_lights == <<fm_vars, urg_vars, audio_vars, image_vars, req_vars, val_vars,
                dedup_vars, tbl_vars, pat_vars, anom_vars, dash_vars, drq_vars>>
not_tbl == <<fm_vars, urg_vars, audio_vars, image_vars, req_vars, val_vars, dedup_vars,
             lights_vars, pat_vars, anom_vars, dash_vars, drq_vars>>
not_pat == <<fm_vars, urg_vars, audio_vars, image_vars, req_vars, val_vars, dedup_vars,
             lights_vars, tbl_vars, anom_vars, dash_vars, drq_vars>>
not_anom == <<fm_vars, urg_vars, audio_vars, image_vars, req_vars, val_vars,
              dedup_vars, lights_vars, tbl_vars, pat_vars, dash_vars, drq_vars>>
not_dash == <<fm_vars, urg_vars, audio_vars, image_vars, req_vars, val_vars,
              dedup_vars, lights_vars, tbl_vars, pat_vars, anom_vars, drq_vars>>
not_drq == <<fm_vars, urg_vars, audio_vars, image_vars, req_vars, val_vars, dedup_vars,
             lights_vars, tbl_vars, pat_vars, anom_vars, dash_vars>>

----------------------------------------------------------------------------
(* Units *)

ConfOne == 300
StrengthOne == 10

Min(a, b) == IF a <= b THEN a ELSE b
Max(a, b) == IF a >= b THEN a ELSE b

\* dict.get(key, default)
Get(d, key, default) == IF key \in DOMAIN d THEN d[key] ELSE default

----------------------------------------------------------------------------
(* AudioAnalyzer.__init__: the static fault-signature table *)

\* declaration order of the dict, which is its iteration order
FaultOrder ==
    << "spark_plug_misfire", "timing_chain_rattle", "worn_engine_bearings",
       "valve_lifter_noise", "serpentine_belt_squeal", "brake_pad_squeal",
       "cv_joint_clicking", "exhaust_leak", "turbo_whistle", "engine_knock" >>

FaultNames == { FaultOrder[i] : i \in DOMAIN FaultOrder }

engine_fault_patterns ==
    [ spark_plug_misfire |->
        [ frequency_range |-> <<800, 2500>>, severity |-> "warning", urgency |-> "warning",
          keywords |-> <<"spark plug misfire", "engine misfire repair", "ignition system fix">> ],
      timing_chain_rattle |->
        [ frequency_range |-> <<1200, 4000>>, severity |-> "critical", urgency |-> "critical",
          keywords |-> <<"timing chain rattle", "timing chain replacement", "engine timing noise">> ],
      worn_engine_bearings |->
        [ frequency_range |-> <<500, 2000>>, severity |-> "critical", urgency |-> "critical",
          keywords |-> <<"engine bearing noise", "rod bearing replacement", "engine rebuild">> ],
      valve_lifter_noise |->
        [ frequency_range |-> <<1000, 3000>>, severity |-> "warning", urgency |-> "warning",
          keywords |-> <<"valve lifter noise", "hydraulic lifter repair", "valve adjustment">> ],
      serpentine_belt_squeal |->
        [ frequency_range |-> <<2000, 8000>>, severity |-> "warning", urgency |-> "warning",
          keywords |-> <<"serpentine belt squeal", "belt replacement", "belt tensioner repair">> ],
      brake_pad_squeal |->
        [ frequency_range |-> <<3000, 10000>>, severity |-> "warning", urgency |-> "warning",
          keywords |-> <<"brake pad squeal", "brake pad replacement", "brake service">> ],
      cv_joint_clicking |->
        [ frequency_range |-> <<1500, 5000>>, severity |-> "warning", urgency |-> "warning",
          keywords |-> <<"CV joint clicking", "CV joint replacement", "axle repair">> ],
      exhaust_leak |->
        [ frequency_range |-> <<100, 1000>>, severity |-> "normal", urgency |-> "normal",
          keywords |-> <<"exhaust leak repair", "muffler replacement", "exhaust system fix">> ],
      turbo_whistle |->
        [ frequency_range |-> <<4000, 12000>>, severity |-> "warning", urgency |-> "warning",
          keywords |-> <<"turbo whistle", "turbocharger repair", "boost leak fix">> ],
      engine_knock |->
        [ frequency_range |-> <<1000, 4000>>, severity |-> "critical", urgency |-> "critical",
          keywords |-> <<"engine knock repair", "carbon cleaning", "octane booster">> ] ]

----------------------------------------------------------------------------
(* AudioAnalyzer._detect_engine_faults *)

\* freq_range[0] <= f <= freq_range[1]
InRange(f, freq_range) == freq_range[1] <= f /\ f <= freq_range[2]

\* a mutation of DominantScore: the dominant frequency adds 0.5
DominantScoreHalf(fault_name, fa) ==
    IF InRange(Get(fa, "dominant_frequency", 0),
               engine_fault_patterns[fault_name].frequency_range)
    THEN 150 ELSE 0

\* 1. frequency range matching: +0.3 when the dominant frequency is in range
DominantScore(fault_name, fa) ==
    IF InRange(Get(fa, "dominant_frequency", 0),
               engine_fault_patterns[fault_name].frequency_range)
    THEN 90 ELSE 0

\* matching_peaks = [f for f in peak_frequencies if lo <= f <= hi]
MatchingPeaks(fault_name, fa) ==
    SelectSeq(Get(fa, "peak_frequencies", <<>>),
              LAMBDA f : InRange(f, engine_fault_patterns[fault_name].frequency_range))

\* confidence += 0.2 * min(len(matching_peaks) / 3, 1.0)
PeakScore(fault_name, fa) ==
    LET n == Len(MatchingPeaks(fault_name, fa))
    IN  IF n > 0 THEN Min(20 * n, 60) ELSE 0

SumBands(bands) ==
    LET RECURSIVE S(_)
        S(ks) == IF ks = {} THEN 0
                 ELSE LET k == CHOOSE x \in ks : TRUE IN bands[k] + S(ks \ {k})
    IN  S(DOMAIN bands)

\* 2. the if/elif chain of band-energy rules; TRUE when the signature's rule fires
BandRuleFires(fault_name, fa) ==
    LET band_energies == Get(fa, "frequency_bands", << >>)
        e(b) == Get(band_energies, b, 0)
    IN  IF fault_name \in {"spark_plug_misfire", "valve_lifter_noise"}
          THEN e("mid") > e("bass")
        ELSE IF fault_name \in {"timing_chain_rattle", "engine_knock"}
          THEN e("high_mid") > e("sub_bass")
        ELSE IF fault_name \in {"serpentine_belt_squeal", "brake_pad_squeal"}
          THEN 10 * e("presence") > 3 * SumBands(band_energies)
        ELSE IF fault_name \in {"worn_engine_bearings", "exhaust_leak"}
          THEN e("bass") > e("presence")
        ELSE FALSE

\* what the rule adds: 0.3 for the two squeal faults, 0.2 for the others
BandScore(fault_name, fa) ==
    IF BandRuleFires(fault_name, fa)
    THEN IF fault_name \in {"serpentine_belt_squeal", "brake_pad_squeal"} THEN 90 ELSE 60
    ELSE 0

\* a mutation of PatternWeight: the rhythmic branch (lines 413-415) is missing
PatternWeightNoRhythmic(fault_name, pattern_type) ==
    IF fault_name \in {"spark_plug_misfire"} /\ pattern_type = "impulsive" THEN 9
    ELSE IF fault_name \in {"serpentine_belt_squeal", "brake_pad_squeal", "turbo_whistle"}
            /\ pattern_type = "continuous" THEN 9
    ELSE IF fault_name \in {"worn_engine_bearings", "engine_knock"}
            /\ pattern_type = "noise" THEN 6
    ELSE 0

\* 3. the weight (in 1/300 per tenth of strength) of one pattern for one signature
PatternWeight(fault_name, pattern_type) ==
    IF fault_name \in {"spark_plug_misfire"} /\ pattern_type = "impulsive" THEN 9
    ELSE IF fault_name \in {"timing_chain_rattle", "valve_lifter_noise", "cv_joint_clicking"}
            /\ pattern_type = "rhythmic" THEN 9
    ELSE IF fault_name \in {"serpentine_belt_squeal", "brake_pad_squeal", "turbo_whistle"}
            /\ pattern_type = "continuous" THEN 9
    ELSE IF fault_name \in {"worn_engine_bearings", "engine_knock"}
            /\ pattern_type = "noise" THEN 6
    ELSE 0

RECURSIVE PatternScore(_, _)
PatternScore(fault_name, patterns) ==
    IF patterns = << >> THEN 0
    ELSE LET pattern == Head(patterns)
         IN  Get(pattern, "strength", 0) * PatternWeight(fault_name, Get(pattern, "pattern_type", ""))
             + PatternScore(fault_name, Tail(patterns))

PatternEvidence(fault_name, patterns) ==
    LET match == SelectSeq(patterns,
                    LAMBDA p : PatternWeight(fault_name, Get(p, "pattern_type", "")) > 0)
    IN  [ i \in DOMAIN match |-> match[i].pattern_type ]

\* the evidence list of one signature, in the order the rules append to it
Evidence(fault_name, fa, patterns) ==
    (IF DominantScore(fault_name, fa) > 0 THEN <<"dominant_frequency">> ELSE << >>)
    \o (IF Len(MatchingPeaks(fault_name, fa)) > 0 THEN <<"peak_frequencies">> ELSE << >>)
    \o (IF BandRuleFires(fault_name, fa) THEN <<"band_energy">> ELSE << >>)
    \o PatternEvidence(fault_name, patterns)

\* a mutation of Accumulate: a matching pattern assigns (confidence = ...) instead of
\* adding (confidence += ...)
AccumulateOverwrite(fault_name, fa, patterns) ==
    IF PatternScore(fault_name, patterns) > 0
    THEN PatternScore(fault_name, patterns)
    ELSE DominantScore(fault_name, fa) + PeakScore(fault_name, fa) + BandScore(fault_name, fa)

\* the local `confidence` of one loop iteration when it reaches line 425
Accumulate(fault_name, fa, patterns) ==
    DominantScore(fault_name, fa) + PeakScore(fault_name, fa)
    + BandScore(fault_name, fa) + PatternScore(fault_name, patterns)

\* the threshold 0.4 of line 425
FaultThreshold == 120

\* a mutation of Sufficient: >= instead of >
SufficientInclusive(confidence) == confidence >= FaultThreshold

\* if confidence > 0.4
Sufficient(confidence) == confidence > FaultThreshold

Candidate(fault_name, fa, patterns) ==
    LET fault_info == engine_fault_patterns[fault_name]
    IN  [ name |-> fault_name,
          confidence |-> Min(Accumulate(fault_name, fa, patterns), ConfOne),
          severity |-> fault_info.severity,
          urgency |-> fault_info.urgency,
          keywords |-> fault_info.keywords,
          evidence |-> Evidence(fault_name, fa, patterns),
          frequency_range |-> fault_info.frequency_range ]

\* the for loop over the table: candidates in declaration order
RECURSIVE Candidates(_, _, _)
Candidates(i, fa, patterns) ==
    IF i > Len(FaultOrder) THEN << >>
    ELSE (IF Sufficient(Accumulate(FaultOrder[i], fa, patterns))
          THEN << Candidate(FaultOrder[i], fa, patterns) >> ELSE << >>)
         \o Candidates(i + 1, fa, patterns)

\* a mutation of InsertDesc: an equal key goes in front (a sort that is not stable)
RECURSIVE InsertDescUnstable(_, _)
InsertDescUnstable(sorted, x) ==
    IF sorted = << >> THEN << x >>
    ELSE IF Head(sorted).confidence > x.confidence
         THEN << Head(sorted) >> \o InsertDescUnstable(Tail(sorted), x)
         ELSE << x >> \o sorted

\* where a stable descending sort places x in an already sorted prefix: after every
\* element whose key is greater or equal
RECURSIVE InsertDesc(_, _)
InsertDesc(sorted, x) ==
    IF sorted = << >> THEN << x >>
    ELSE IF Head(sorted).confidence >= x.confidence
         THEN << Head(sorted) >> \o InsertDesc(Tail(sorted), x)
         ELSE << x >> \o sorted

\* list.sort(key=lambda x: x['confidence'], reverse=True): stable, descending
RECURSIVE SortByConfidence(_)
SortByConfidence(faults) ==
    IF faults = << >> THEN << >>
    ELSE InsertDesc(SortByConfidence(SubSeq(faults, 1, Len(faults) - 1)), faults[Len(faults)])

_detect_engine_faults(fa, patterns) == SortByConfidence(Candidates(1, fa, patterns))

----------------------------------------------------------------------------
(* AudioAnalyzer._determine_urgency_level *)

\* for fault in detected_faults: if fault.get('urgency') == level: return ...
RECURSIVE AnyWithUrgency(_, _)
AnyWithUrgency(faults, level) ==
    IF faults = << >> THEN FALSE
    ELSE IF Get(Head(faults), "urgency", "none") = level THEN TRUE
    ELSE AnyWithUrgency(Tail(faults), level)

\* a mutation of _determine_urgency_level: only the first candidate is looked at
\* (as if the list were sorted by urgency)
FirstUrgency(faults) ==
    IF faults = << >> THEN "normal"
    ELSE IF Get(faults[1], "urgency", "none") = "critical" THEN "critical"
    ELSE IF Get(faults[1], "urgency", "none") = "warning" THEN "warning"
    ELSE "normal"

_determine_urgency_level(faults) ==
    IF faults = << >> THEN "normal"
    ELSE IF AnyWithUrgency(faults, "critical") THEN "critical"
    ELSE IF AnyWithUrgency(faults, "warning") THEN "warning"
    ELSE "normal"

----------------------------------------------------------------------------
(* Waveforms.                                                              *)
(*                                                                         *)
(* A waveform y is a record [exp, blocks]: blocks is a sequence of         *)
(* absolute amplitude levels, each standing for BlockSamples consecutive   *)
(* samples of that absolute value; the amplitude of level l is             *)
(* l * 10^(-exp).  Only |y| and y**2 are read by the quality analysis, so  *)
(* the sign of a sample is not kept.                                       *)

\* librosa.load(temp_file_path, sr=22050)
SampleRate == 22050

\* samples per block: one second of audio
BlockSamples == 22050

RECURSIVE Pow10(_)
Pow10(k) == IF k = 0 THEN 1 ELSE 10 * Pow10(k - 1)

RECURSIVE SumSeq(_)
SumSeq(q) == IF q = << >> THEN 0 ELSE Head(q) + SumSeq(Tail(q))

RECURSIVE MaxSeq(_)
MaxSeq(q) == IF Len(q) = 1 THEN q[1] ELSE Max(Head(q), MaxSeq(Tail(q)))

RECURSIVE InsertSorted(_, _)
InsertSorted(q, x) ==
    IF q = << >> THEN << x >>
    ELSE IF Head(q) <= x THEN << Head(q) >> \o InsertSorted(Tail(q), x)
    ELSE << x >> \o q

RECURSIVE Sorted(_)
Sorted(q) == IF q = << >> THEN << >> ELSE InsertSorted(Sorted(Tail(q)), Head(q))

Count(q, P(_)) == Len(SelectSeq(q, P))

\* len(y)
NumSamples(y) == Len(y.blocks) * BlockSamples

\* the value -inf of a float
NegInf == -1000000000

\* 10^(k/20) * 1000 for k = 0..19: one decade of amplitude ratio in steps of 1 dB
DecibelSteps ==
    << 1000, 1122, 1259, 1413, 1585, 1778, 1995, 2239, 2512, 2818,
       3162, 3548, 3981, 4467, 5012, 5623, 6310, 7079, 7943, 8913 >>

\* 20 * log10(num / den) for num >= den > 0, cut to whole decibels
RECURSIVE Db20Floor(_, _)
Db20Floor(num, den) ==
    IF num >= 10 * den THEN 20 + Db20Floor(num, 10 * den)
    ELSE LET ks == { k \in 0..19 : num * 1000 >= den * DecibelSteps[k + 1] }
         IN  CHOOSE k \in ks : \A j \in ks : j <= k

\* 20 * np.log10(num / den), in whole decibels (cut towards zero); -inf for log10(0)
Db20(num, den) ==
    IF num = 0 THEN NegInf
    ELSE IF num >= den THEN Db20Floor(num, den)
    ELSE 0 - Db20Floor(den, num)

\* 10 * np.log10(num / den), in whole decibels (cut towards zero)
Db10(num, den) ==
    IF num = 0 THEN NegInf
    ELSE IF num >= den THEN Db20Floor(num, den) \div 2
    ELSE 0 - (Db20Floor(den, num) \div 2)

\* round(a / b) for b > 0, halves to the even neighbour as Python's round does
RoundDiv(a, b) ==
    LET q == a \div b
        r == a - q * b
    IN  IF 2 * r < b THEN q
        ELSE IF 2 * r > b THEN q + 1
        ELSE IF q % 2 = 0 THEN q ELSE q + 1

----------------------------------------------------------------------------
(* AudioAnalyzer._analyze_audio_quality and _get_quality_recommendations *)

\* np.percentile(np.abs(y), 10): the sorted sample at position 0.1 * (len(y) - 1);
\* the model keeps fewer than 10 blocks, so that this sample and the next one lie in
\* the same (lowest) block and the linear interpolation between them leaves it as is
Percentile10(y) ==
    LET sorted == Sorted(y.blocks)
        position == (NumSamples(y) - 1) \div 10
    IN  sorted[(position \div BlockSamples) + 1]

\* snr = 10 * log10(signal_power / noise_floor) if noise_floor > 0 else 50
SnrDb(y) ==
    LET sum_squares == SumSeq([ i \in DOMAIN y.blocks |-> y.blocks[i] * y.blocks[i] ])
        noise_level == Percentile10(y)
    IN  IF noise_level > 0
        THEN Db10(sum_squares, Len(y.blocks) * noise_level * noise_level)
        ELSE 50

\* 1e-10 in units of 10^(-exp): a whole number of units from exp = 10 on; below
\* that it is less than 1e-9 of the smallest non-zero level, beneath the resolution
\* of the decibel table, and counted as 0
EpsilonUnits(exp) == IF exp >= 10 THEN Pow10(exp - 10) ELSE 0

\* dynamic_range = 20 * log10(max(|y|) / (mean(|y|) + 1e-10))
DynamicRangeDb(y) ==
    LET n == Len(y.blocks)
    IN  IF MaxSeq(y.blocks) = 0 THEN NegInf
        ELSE Db20(MaxSeq(y.blocks) * n, SumSeq(y.blocks) + n * EpsilonUnits(y.exp))

\* |amplitude| > 0.95 (levels stay below 10^6, so no level of exp > 6 reaches 0.95)
IsClipped(level, exp) == exp <= 6 /\ 100 * level > 95 * Pow10(exp)

\* |amplitude| < 0.01 (silence_threshold)
IsSilent(level, exp) == exp > 6 \/ 100 * level < Pow10(exp)

ClippedBlocks(y) == Count(y.blocks, LAMBDA l : IsClipped(l, y.exp))
SilentBlocks(y) == Count(y.blocks, LAMBDA l : IsSilent(l, y.exp))

\* quality_score * 400 * n, where n is the number of blocks:
\*   min(snr/30, 1) * 0.3 + min(dynamic_range/40, 1) * 0.3
\*   + (1 - clipping_ratio) * 0.2 + (1 - silence_ratio) * 0.2
\* (-inf when the dynamic range is -inf; nothing clips the sum to [0, 1])
QualityScoreNum(y) ==
    LET n == Len(y.blocks)
    IN  IF DynamicRangeDb(y) = NegInf \/ SnrDb(y) = NegInf THEN NegInf
        ELSE 4 * n * Min(SnrDb(y), 30) + 3 * n * Min(DynamicRangeDb(y), 40)
             + 80 * (n - ClippedBlocks(y)) + 80 * (n - SilentBlocks(y))

QualityScoreDen(y) == 400 * Len(y.blocks)

\* round(quality_score, 3), in thousandths
QualityScore(y) ==
    IF QualityScoreNum(y) = NegInf THEN NegInf
    ELSE RoundDiv(1000 * QualityScoreNum(y), QualityScoreDen(y))

\* quality_score > tenths / 10
ScoreAbove(y, tenths) ==
    QualityScoreNum(y) # NegInf /\ 10 * QualityScoreNum(y) > tenths * QualityScoreDen(y)

QualityRating(y) ==
    IF ScoreAbove(y, 8) THEN "excellent"
    ELSE IF ScoreAbove(y, 6) THEN "good"
    ELSE IF ScoreAbove(y, 4) THEN "fair"
    ELSE "poor"

QualityIssues(y) ==
    (IF SnrDb(y) < 15 THEN << "High background noise" >> ELSE << >>)
    \o (IF DynamicRangeDb(y) < 15 THEN << "Low dynamic range" >> ELSE << >>)
    \o (IF 100 * ClippedBlocks(y) > Len(y.blocks)
         THEN << "Audio clipping detected" >> ELSE << >>)
    \o (IF 2 * SilentBlocks(y) > Len(y.blocks)
         THEN << "Too much silence in recording" >> ELSE << >>)
    \o (IF NumSamples(y) < 3 * SampleRate
         THEN << "Recording too short for reliable analysis" >> ELSE << >>)

Contains(q, x) == \E i \in DOMAIN q : q[i] = x

\* score_below_half stands for quality_score < 0.5
_get_quality_recommendations(score_below_half, issues) ==
    (IF score_below_half
     THEN << "Consider re-recording in a quieter environment" >> ELSE << >>)
    \o (IF Contains(issues, "High background noise")
         THEN << "Record closer to engine with less background noise" >> ELSE << >>)
    \o (IF Contains(issues, "Audio clipping detected")
         THEN << "Reduce recording volume to avoid distortion" >> ELSE << >>)
    \o (IF Contains(issues, "Recording too short for reliable analysis")
         THEN << "Record for at least 5-10 seconds for better analysis" >> ELSE << >>)
    \o (IF Contains(issues, "Too much silence in recording")
         THEN << "Ensure engine is running during recording" >> ELSE << >>)

\* the dict returned when the quality analysis itself raises (lines 759-766)
QualityFallback ==
    [ score |-> 300, rating |-> "poor",
      issues |-> << "Quality analysis failed" >>,
      recommendations |-> << "Re-record audio in quieter environment" >> ]

_analyze_audio_quality(y) ==
    [ score |-> QualityScore(y),
      rating |-> QualityRating(y),
      issues |-> QualityIssues(y),
      recommendations |->
          _get_quality_recommendations(
              QualityScoreNum(y) = NegInf \/ 2 * QualityScoreNum(y) < QualityScoreDen(y),
              QualityIssues(y)) ]

----------------------------------------------------------------------------
(* Input domains of the fault matcher *)

DominantFreqs == {900, 1500, 4000}
PeakFreqs == {1500, 4500, 5000}
BandNames == {"sub_bass", "bass", "low_mid", "mid", "high_mid", "presence", "brilliance"}

Bands(sb, b, lm, m, hm, p, br) ==
    [ sub_bass |-> sb, bass |-> b, low_mid |-> lm, mid |-> m,
      high_mid |-> hm, presence |-> p, brilliance |-> br ]

ZeroBands == Bands(0, 0, 0, 0, 0, 0, 0)

BandProfiles ==
    { Bands(0, 1, 1, 5, 1, 0, 0),     \* mid dominant, high_mid above sub_bass
      Bands(2, 1, 1, 5, 1, 0, 0),     \* mid dominant, high_mid below sub_bass
      Bands(2, 5, 1, 1, 1, 0, 0),     \* bass dominant
      Bands(0, 0, 0, 1, 1, 5, 1),     \* presence dominant
      Bands(1, 1, 1, 1, 1, 1, 1),     \* flat
      Bands(0, 0, 0, 4, 3, 3, 0) }    \* presence holds exactly 30% of the total

\* the order in which _detect_sound_patterns appends the pattern types
DetectorOrder == << "rhythmic", "continuous", "impulsive", "harmonic", "noise" >>

DetectorIndex(t) == CHOOSE i \in DOMAIN DetectorOrder : DetectorOrder[i] = t

\* strengths (in tenths) above each detector's threshold that the model draws
PatternStrengths ==
    [ rhythmic |-> {5, 10}, continuous |-> {10}, impulsive |-> {10}, noise |-> {10} ]

\* the result of _analyze_frequency_spectrum when it fails (lines 286-288)
FailedFrequencyAnalysis == [ analysis_failed |-> TRUE ]

NoEvidenceAnalysis ==
    [ dominant_frequency |-> 0, frequency_bands |-> ZeroBands, peak_frequencies |-> << >> ]

RECURSIVE InsertAscending(_, _)
InsertAscending(seq, f) ==
    IF seq = << >> THEN << f >>
    ELSE IF Head(seq) < f THEN << Head(seq) >> \o InsertAscending(Tail(seq), f)
    ELSE << f >> \o seq

RECURSIVE InsertPattern(_, _)
InsertPattern(seq, p) ==
    IF seq = << >> THEN << p >>
    ELSE IF DetectorIndex(Head(seq).pattern_type) < DetectorIndex(p.pattern_type)
         THEN << Head(seq) >> \o InsertPattern(Tail(seq), p)
    ELSE << p >> \o seq

----------------------------------------------------------------------------
(* The fault matcher as a state machine: each action is one call of           *)
(* _detect_engine_faults; the Add/Set actions call it again with one more     *)
(* evidence source in the arguments.                                          *)

\* one call: the arguments, the returned list and the per-signature `confidence`
Detect(fa, patterns) ==
    /\ fm_pc' = "done"
    /\ frequency_analysis' = fa
    /\ sound_patterns' = patterns
    /\ detected_faults' = _detect_engine_faults(fa, patterns)
    /\ accumulated' = [ n \in FaultNames |-> Accumulate(n, fa, patterns) ]

FmInit ==
    /\ fm_pc = "idle"
    /\ frequency_analysis = FailedFrequencyAnalysis
    /\ sound_patterns = << >>
    /\ detected_faults = << >>
    /\ accumulated = [ n \in FaultNames |-> 0 ]

\* a call with no evidence at all: a failed or an all-zero frequency analysis
DetectCall ==
    /\ fm_pc = "idle"
    /\ \E fa \in {FailedFrequencyAnalysis, NoEvidenceAnalysis} : Detect(fa, << >>)
    /\ UNCHANGED not_fm

SetDominant ==
    /\ fm_pc = "done"
    /\ Get(frequency_analysis, "dominant_frequency", -1) = 0
    /\ \E f \in DominantFreqs :
          Detect([frequency_analysis EXCEPT !.dominant_frequency = f], sound_patterns)
    /\ UNCHANGED not_fm

SetBands ==
    /\ fm_pc = "done"
    /\ Get(frequency_analysis, "frequency_bands", << >>) = ZeroBands
    /\ \E b \in BandProfiles :
          Detect([frequency_analysis EXCEPT !.frequency_bands = b], sound_patterns)
    /\ UNCHANGED not_fm

AddPeak ==
    /\ fm_pc = "done"
    /\ "peak_frequencies" \in DOMAIN frequency_analysis
    /\ \E f \in PeakFreqs :
          /\ \A i \in DOMAIN frequency_analysis.peak_frequencies :
                frequency_analysis.peak_frequencies[i] # f
          /\ Detect([frequency_analysis EXCEPT
                       !.peak_frequencies = InsertAscending(@, f)], sound_patterns)
    /\ UNCHANGED not_fm

AddPattern ==
    /\ fm_pc = "done"
    /\ \E t \in DOMAIN PatternStrengths :
          /\ \A i \in DOMAIN sound_patterns : sound_patterns[i].pattern_type # t
          /\ \E s \in PatternStrengths[t] :
                Detect(frequency_analysis,
                       InsertPattern(sound_patterns, [pattern_type |-> t, strength |-> s]))
    /\ UNCHANGED not_fm

FmNext == DetectCall \/ SetDominant \/ SetBands \/ AddPeak \/ AddPattern

----------------------------------------------------------------------------
(* _determine_urgency_level applied to arbitrary candidate lists *)

MaxFaults == 4

\* a candidate as the function reads it: its urgency, or no urgency key at all
UrgencyDicts ==
    { [urgency |-> u] : u \in {"critical", "warning", "normal"} } \cup { [name |-> "unknown"] }

RECURSIVE ListsUpTo(_, _)
ListsUpTo(S, n) ==
    IF n = 0 THEN { << >> }
    ELSE LET shorter == ListsUpTo(S, n - 1)
         IN  shorter \cup { Append(l, x) : l \in { m \in shorter : Len(m) = n - 1 }, x \in S }

UrgInit ==
    /\ urgency_input = << >>
    /\ urgency_level = "none"

DetermineUrgency ==
    /\ urgency_level = "none"
    /\ \E faults \in ListsUpTo(UrgencyDicts, MaxFaults) :
          /\ urgency_input' = faults
          /\ urgency_level' = _determine_urgency_level(faults)
    /\ UNCHANGED not_urg

----------------------------------------------------------------------------
(* AudioAnalyzer._calculate_enhanced_confidence, _extract_repair_keywords and *)
(* _create_failed_analysis                                                    *)

\* a float as an exact fraction
Frac(n, d) == [ num |-> n, den |-> d ]

RECURSIVE UnweightedFaultSum(_)
\* a mutation of WeightedFaultSum: severity_weight is 1.0 for every fault
UnweightedFaultSum(faults) ==
    IF faults = << >> THEN 0
    ELSE Get(Head(faults), "confidence", 0) * 5 + UnweightedFaultSum(Tail(faults))

RECURSIVE WeightedFaultSum(_)
\* sum of fault_conf * severity_weight, in units of 1/1500 (weights 1.0 and 0.8)
WeightedFaultSum(faults) ==
    IF faults = << >> THEN 0
    ELSE Get(Head(faults), "confidence", 0)
           * (IF Get(Head(faults), "severity", "none") = "critical" THEN 5 ELSE 4)
         + WeightedFaultSum(Tail(faults))

RECURSIVE StrengthSum(_)
StrengthSum(patterns) ==
    IF patterns = << >> THEN 0
    ELSE Get(Head(patterns), "strength", 0) + StrengthSum(Tail(patterns))

\* the fraction has denominator 30000 * k * p, k and p the numbers of faults and of
\* patterns (1 when there is none); -inf when the quality score is -inf
_calculate_enhanced_confidence(faults, audio_quality, fa, patterns) ==
    LET quality_score == Get(audio_quality, "score", 500)
        k == Max(Len(faults), 1)
        p == Max(Len(patterns), 1)
        from_quality == 9 * quality_score * k * p
        from_faults == IF faults # << >> THEN 8 * WeightedFaultSum(faults) * p
                       ELSE 6000 * k * p
        from_frequency == IF Get(fa, "dominant_frequency", 0) > 0 THEN 6000 * k * p ELSE 0
        from_patterns == IF patterns # << >> THEN 300 * StrengthSum(patterns) * k ELSE 0
        confidence == from_quality + from_faults + from_frequency + from_patterns
    IN  IF quality_score = NegInf THEN Frac(NegInf, 1)
        ELSE Frac(Min(confidence, 30000 * k * p), 30000 * k * p)

RECURSIVE AllKeywords(_)
AllKeywords(faults) ==
    IF faults = << >> THEN {}
    ELSE { Head(faults).keywords[i] : i \in DOMAIN Head(faults).keywords }
         \cup AllKeywords(Tail(faults))

\* list(set(keywords))[:8]: the iteration order of a set of strings is not fixed, so
\* the value is any `size` distinct members of `drawn_from`
_extract_repair_keywords(faults) ==
    [ drawn_from |-> AllKeywords(faults),
      size |-> Min(Cardinality(AllKeywords(faults)), 8) ]

_create_failed_analysis(error_message) ==
    [ analysis_successful |-> FALSE,
      analysis_failed |-> TRUE,
      error_message |-> error_message,
      detected_sounds |-> << >>,
      detected_faults |-> << >>,
      sound_patterns |-> << >>,
      frequency_analysis |-> [ analysis_failed |-> TRUE ],
      decibel_analysis |-> [ analysis_failed |-> TRUE ],
      anomaly_analysis |-> [ analysis_failed |-> TRUE ],
      audio_quality |-> [ score |-> 0, rating |-> "failed", issues |-> << error_message >> ],
      overall_confidence |-> Frac(0, 1),
      urgency_level |-> "normal",
      repair_keywords |-> [ drawn_from |-> {"audio analysis failed", "re-record audio"},
                            size |-> 2 ],
      analysis_metadata |-> [ processing_successful |-> FALSE, error |-> error_message ] ]

----------------------------------------------------------------------------
(* Input domains of analyze_engine_sound *)

MaxBlocks == 3

\* decimal exponents of the amplitude unit: tenths of full scale, and 1e-12
Exps == {1, 12}

LevelsOf(exp) == IF exp = 1 THEN {0, 5, 10} ELSE {0, 1}

Waveforms ==
    { [ exp |-> 1, blocks |-> << >> ] }
    \cup UNION { { [ exp |-> e, blocks |-> b ] : b \in ListsUpTo(LevelsOf(e), MaxBlocks) \ {<< >>} }
                 : e \in Exps }

\* the uploaded bytes: what librosa.load makes of them
AudioInputs ==
    { [ decodable |-> FALSE ] } \cup { [ decodable |-> TRUE, y |-> w ] : w \in Waveforms }

\* what the librosa-based feature extraction may report for a clip
FeatureScenarios ==
    { [ fa |-> NoEvidenceAnalysis, patterns |-> << >> ],
      [ fa |-> NoEvidenceAnalysis,
        patterns |-> << [pattern_type |-> "continuous", strength |-> 10] >> ],
      [ fa |-> [ dominant_frequency |-> 1500, frequency_bands |-> Bands(0, 1, 1, 5, 1, 0, 0),
                 peak_frequencies |-> << 1500 >> ],
        patterns |-> << [pattern_type |-> "rhythmic", strength |-> 10] >> ],
      [ fa |-> [ dominant_frequency |-> 1500, frequency_bands |-> Bands(0, 1, 1, 5, 3, 0, 0),
                 peak_frequencies |-> << 1500 >> ],
        patterns |-> << [pattern_type |-> "rhythmic", strength |-> 10],
                        [pattern_type |-> "impulsive", strength |-> 10],
                        [pattern_type |-> "harmonic", strength |-> 4],
                        [pattern_type |-> "noise", strength |-> 10] >> ],
      [ fa |-> [ dominant_frequency |-> 4000, frequency_bands |-> Bands(0, 0, 0, 1, 1, 5, 1),
                 peak_frequencies |-> << 4500, 5000 >> ],
        patterns |-> << [pattern_type |-> "continuous", strength |-> 10] >> ],
      [ fa |-> [ dominant_frequency |-> 900, frequency_bands |-> Bands(2, 5, 1, 1, 1, 0, 0),
                 peak_frequencies |-> << >> ],
        patterns |-> << >> ] }

\* the sub-analyses of steps 1-6, each with its own try/except
SubAnalyses == { "quality", "frequency", "patterns", "faults", "decibel", "anomaly" }

----------------------------------------------------------------------------
(* AudioAnalyzer.analyze_engine_sound, statement by statement *)

NoResult == [ none |-> TRUE ]

AudioInit ==
    /\ a_pc = "idle"
    /\ audio_data = [ decodable |-> FALSE ]
    /\ temp_files = {}
    /\ temp_file_path = "unbound"
    /\ audio_y = [ exp |-> 1, blocks |-> << >> ]
    /\ parts = NoResult
    /\ pending = NoResult
    /\ audio_result = NoResult
    /\ a_path = "none"

\* a mutation of OuterExcept: the exception is not caught and leaves the call
OuterExceptMissing(message) == [ pc |-> "raised", result |-> NoResult ]

\* except Exception as e: return self._create_failed_analysis(...)  (lines 208-210)
OuterExcept(message) == [ pc |-> "returned", result |-> _create_failed_analysis(message) ]

\* the caller passes the bytes
CallAnalyze ==
    /\ a_pc = "idle"
    /\ \E data \in AudioInputs : audio_data' = data
    /\ a_pc' = "create_temp"
    /\ UNCHANGED <<temp_files, temp_file_path, audio_y, parts, pending, audio_result, a_path>>
    /\ UNCHANGED not_audio

\* line 134: NamedTemporaryFile(delete=False) creates the file
CreateTemp ==
    /\ a_pc = "create_temp"
    /\ temp_files' = temp_files \cup {"tmp.wav"}
    /\ a_pc' = "write_temp"
    /\ UNCHANGED <<audio_data, temp_file_path, audio_y, parts, pending, audio_result, a_path>>
    /\ UNCHANGED not_audio

\* line 134 raises (no file is created): the outer handler answers
CreateTempRaises ==
    /\ a_pc = "create_temp"
    /\ a_pc' = OuterExcept("Analysis failed").pc
    /\ audio_result' = OuterExcept("Analysis failed").result
    /\ a_path' = "create_raised"
    /\ UNCHANGED <<audio_data, temp_files, temp_file_path, audio_y, parts, pending>>
    /\ UNCHANGED not_audio

\* lines 135-136: the bytes are written, the file is closed, its name is kept
WriteTemp ==
    /\ a_pc = "write_temp"
    /\ temp_file_path' = "tmp.wav"
    /\ a_pc' = "load"
    /\ UNCHANGED <<audio_data, temp_files, audio_y, parts, pending, audio_result, a_path>>
    /\ UNCHANGED not_audio

\* line 135 raises (or the close at the end of the with block does): the with block
\* closes the file, which was made with delete=False and stays on disk; the inner
\* try/finally has not been entered; the outer handler answers
WriteTempRaises ==
    /\ a_pc = "write_temp"
    /\ a_pc' = OuterExcept("Analysis failed").pc
    /\ audio_result' = OuterExcept("Analysis failed").result
    /\ a_path' = "write_raised"
    /\ UNCHANGED <<audio_data, temp_files, temp_file_path, audio_y, parts, pending>>
    /\ UNCHANGED not_audio

\* lines 140-144: librosa.load, and the return of the failed analysis when it raises
Load ==
    /\ a_pc = "load"
    /\ IF audio_data.decodable
       THEN /\ audio_y' = audio_data.y
            /\ a_pc' = "check_empty"
            /\ UNCHANGED <<pending, a_path>>
       ELSE /\ pending' = [ returns |-> _create_failed_analysis(
                                "Audio file could not be loaded or is corrupted") ]
            /\ a_path' = "load_failed"
            /\ a_pc' = "finally"
            /\ UNCHANGED audio_y
    /\ UNCHANGED <<audio_data, temp_files, temp_file_path, parts, audio_result>>
    /\ UNCHANGED not_audio

\* lines 146-147: if len(y) == 0
CheckEmpty ==
    /\ a_pc = "check_empty"
    /\ IF NumSamples(audio_y) = 0
       THEN /\ pending' = [ returns |-> _create_failed_analysis("Audio file is empty") ]
            /\ a_path' = "empty"
            /\ a_pc' = "finally"
       ELSE /\ a_pc' = "analyse"
            /\ UNCHANGED <<pending, a_path>>
    /\ UNCHANGED <<audio_data, temp_files, temp_file_path, audio_y, parts, audio_result>>
    /\ UNCHANGED not_audio

\* a mutation of SubResults: a failure inside one sub-analysis discards the results
\* of the others too
SubResultsAllOrNothing(scenario, failed) ==
    [ failed |-> failed,
      audio_quality |-> IF failed # "none" THEN QualityFallback
                        ELSE _analyze_audio_quality(audio_y),
      frequency_analysis |-> IF failed # "none" THEN FailedFrequencyAnalysis ELSE scenario.fa,
      sound_patterns |-> IF failed # "none" THEN << >> ELSE scenario.patterns,
      detected_faults |-> IF failed # "none" THEN << >>
                          ELSE _detect_engine_faults(scenario.fa, scenario.patterns),
      decibel_analysis |-> IF failed # "none" THEN [ analysis_failed |-> TRUE ]
                           ELSE [ computed |-> TRUE ],
      anomaly_analysis |-> IF failed # "none" THEN [ analysis_failed |-> TRUE ]
                           ELSE [ computed |-> TRUE ] ]

\* lines 153-168, steps 1-6: each sub-analysis returns its result, or its neutral
\* default when it fails inside (failed names the one that does, if any)
SubResults(scenario, failed) ==
    LET fa == IF failed = "frequency" THEN FailedFrequencyAnalysis ELSE scenario.fa
        patterns == IF failed = "patterns" THEN << >> ELSE scenario.patterns
    IN  [ failed |-> failed,         \* history: the sub-analysis that failed inside
          audio_quality |-> IF failed = "quality" THEN QualityFallback
                            ELSE _analyze_audio_quality(audio_y),
          frequency_analysis |-> fa,
          sound_patterns |-> patterns,
          detected_faults |-> IF failed = "faults" THEN << >>
                              ELSE _detect_engine_faults(fa, patterns),
          decibel_analysis |-> IF failed = "decibel" THEN [ analysis_failed |-> TRUE ]
                               ELSE [ computed |-> TRUE ],
          anomaly_analysis |-> IF failed = "anomaly" THEN [ analysis_failed |-> TRUE ]
                               ELSE [ computed |-> TRUE ] ]

Analyse ==
    /\ a_pc = "analyse"
    /\ \E scenario \in FeatureScenarios, failed \in SubAnalyses \cup {"none"} :
          parts' = SubResults(scenario, failed)
    /\ a_pc' = "aggregate"
    /\ UNCHANGED <<audio_data, temp_files, temp_file_path, audio_y, pending, audio_result, a_path>>
    /\ UNCHANGED not_audio

\* lines 171-198: steps 7-8 and the result dict of a completed analysis
AnalysisResult ==
    [ analysis_successful |-> TRUE,
      detected_sounds |-> [ i \in DOMAIN parts.detected_faults |-> parts.detected_faults[i].name ],
      detected_faults |-> parts.detected_faults,
      sound_patterns |-> parts.sound_patterns,
      frequency_analysis |-> parts.frequency_analysis,
      decibel_analysis |-> parts.decibel_analysis,
      anomaly_analysis |-> parts.anomaly_analysis,
      audio_quality |-> parts.audio_quality,
      overall_confidence |->
          _calculate_enhanced_confidence(parts.detected_faults, parts.audio_quality,
                                         parts.frequency_analysis, parts.sound_patterns),
      urgency_level |-> _determine_urgency_level(parts.detected_faults),
      repair_keywords |-> _extract_repair_keywords(parts.detected_faults),
      analysis_metadata |-> [ processing_successful |-> TRUE ] ]

\* lines 171-201: the result is assembled, then `return`
Aggregate ==
    /\ a_pc = "aggregate"
    /\ pending' = [ returns |-> AnalysisResult ]
    /\ a_path' = "success"
    /\ a_pc' = "finally"
    /\ UNCHANGED <<audio_data, temp_files, temp_file_path, audio_y, parts, audio_result>>
    /\ UNCHANGED not_audio

\* a statement of lines 171-198 raises
AggregateRaises ==
    /\ a_pc = "aggregate"
    /\ pending' = [ raises |-> "Analysis failed" ]
    /\ a_path' = "step_raised"
    /\ a_pc' = "finally"
    /\ UNCHANGED <<audio_data, temp_files, temp_file_path, audio_y, parts, audio_result>>
    /\ UNCHANGED not_audio

\* lines 203-206: the finally block removes the file, then the pending return takes
\* place, or the pending exception reaches the outer handler
Finally ==
    /\ a_pc = "finally"
    /\ temp_files' = IF temp_file_path \in temp_files
                      THEN temp_files \ {temp_file_path} ELSE temp_files
    /\ IF "returns" \in DOMAIN pending
       THEN /\ audio_result' = pending.returns
            /\ a_pc' = "returned"
       ELSE /\ audio_result' = OuterExcept(pending.raises).result
            /\ a_pc' = OuterExcept(pending.raises).pc
    /\ UNCHANGED <<audio_data, temp_file_path, audio_y, parts, pending, a_path>>
    /\ UNCHANGED not_audio

AudioNext ==
    \/ CallAnalyze \/ CreateTemp \/ CreateTempRaises \/ WriteTemp \/ WriteTempRaises
    \/ Load \/ CheckEmpty \/ Analyse \/ Aggregate \/ AggregateRaises \/ Finally

----------------------------------------------------------------------------
(* ImageAnalyzer: _remove_overlapping_lights, _detect_warning_lights and      *)
(* _calculate_overall_confidence.  Light confidences and the image quality    *)
(* score are kept in hundredths (the code rounds both to 2 places).           *)

\* a mutation of TooClose: distance < 60
TooCloseWithin60(a, b) ==
    (a.position.x - b.position.x) * (a.position.x - b.position.x)
      + (a.position.y - b.position.y) * (a.position.y - b.position.y) < 60 * 60

\* distance < 30 between the centres, compared on the squares
TooClose(a, b) ==
    (a.position.x - b.position.x) * (a.position.x - b.position.x)
      + (a.position.y - b.position.y) * (a.position.y - b.position.y) < 30 * 30

RECURSIVE FilterLightsSameColour(_, _)
\* a mutation of FilterLights: only a kept light of the same colour makes a duplicate
FilterLightsSameColour(lights, filtered_lights) ==
    IF lights = << >> THEN filtered_lights
    ELSE LET light == Head(lights)
             is_duplicate == \E i \in DOMAIN filtered_lights :
                                 /\ TooClose(light, filtered_lights[i])
                                 /\ light.color = filtered_lights[i].color
         IN  FilterLightsSameColour(Tail(lights),
                                    IF is_duplicate THEN filtered_lights
                                    ELSE Append(filtered_lights, light))

RECURSIVE FilterLights(_, _)
\* the loop of lines 243-263 over the sorted list
FilterLights(lights, filtered_lights) ==
    IF lights = << >> THEN filtered_lights
    ELSE LET light == Head(lights)
             is_duplicate == \E i \in DOMAIN filtered_lights :
                                 TooClose(light, filtered_lights[i])
         IN  FilterLights(Tail(lights),
                          IF is_duplicate THEN filtered_lights
                          ELSE Append(filtered_lights, light))

\* a mutation of _remove_overlapping_lights: the list is filtered in the order given
RemoveOverlappingUnsorted(lights) ==
    IF Len(lights) <= 1 THEN lights
    ELSE FilterLights(lights, << >>)

_remove_overlapping_lights(lights) ==
    IF Len(lights) <= 1 THEN lights
    ELSE FilterLights(SortByConfidence(lights), << >>)

\* lines 127-133, from the concatenated detections of the colours on
_detect_warning_lights(raw) == SortByConfidence(_remove_overlapping_lights(raw))

RECURSIVE ConfidenceSum(_)
ConfidenceSum(lights) ==
    IF lights = << >> THEN 0
    ELSE Get(Head(lights), "confidence", 0) + ConfidenceSum(Tail(lights))

\* a fraction of denominator 1000 * n, n the number of lights (1 when there is none)
_calculate_overall_confidence(lights, dashboard, quality) ==
    LET n == Max(Len(lights), 1)
        quality_score == Get(quality, "score", 50)
        confidence == (IF dashboard THEN 300 * n ELSE 0)
                      + 3 * quality_score * n
                      + (IF lights # << >> THEN 4 * ConfidenceSum(lights) ELSE 200 * n)
    IN  Frac(Min(confidence, 1000 * n), 1000 * n)

\* the dict returned by the except branch, lines 68-78
ImageAnalysisFailed ==
    [ dashboard_detected |-> FALSE,
      detected_lights |-> << >>,
      image_quality |-> [ score |-> 50, issues |-> << "Analysis failed" >> ],
      overall_confidence |-> Frac(300, 1000),
      analysis_metadata |-> [ processing_successful |-> FALSE ] ]

----------------------------------------------------------------------------
(* Python floats (IEEE 754 doubles) near multiples of 0.01.  A float is kept  *)
(* exactly as [h, e]: its value is h/100 + e * 2^-56/100.                     *)

\* 2^56 modulo 3200: what decides whether h/100 + e * 2^-56/100 is a double
TwoPow56Mod3200 == 1536

Float(h, e) == [ h |-> h, e |-> e ]

\* the doubles the literals 0.0 ... 0.4 and 1.0 denote
Literal(hundredths) ==
    CASE hundredths = 0 -> Float(0, 0)
      [] hundredths = 10 -> Float(10, 40)
      [] hundredths = 20 -> Float(20, 80)
      [] hundredths = 30 -> Float(30, -80)
      [] hundredths = 40 -> Float(40, 160)
      [] hundredths = 100 -> Float(100, 0)

\* distance between neighbouring doubles around the value, in units of 2^-56/100
Spacing(h, e) ==
    LET AtLeast(b) == h * 100 > b \/ (h * 100 = b /\ e >= 0)
    IN  IF AtLeast(10000) THEN 1600
        ELSE IF AtLeast(5000) THEN 800
        ELSE IF AtLeast(2500) THEN 400
        ELSE IF AtLeast(1250) THEN 200
        ELSE 100

\* round to nearest double, ties to the even mantissa
RoundToDouble(h, e) ==
    LET s == Spacing(h, e)
        r == (h * TwoPow56Mod3200 + e) % s
        down == e - r
        up == e + (s - r)
        down_is_even == (h * TwoPow56Mod3200 + down) % (2 * s) = 0
    IN  Float(h, IF r = 0 THEN e
                 ELSE IF 2 * r < s THEN down
                 ELSE IF 2 * r > s THEN up
                 ELSE IF down_is_even THEN down ELSE up)

\* a + b on floats
FloatAdd(a, b) ==
    IF a = Float(0, 0) THEN b
    ELSE IF b = Float(0, 0) THEN a
    ELSE RoundToDouble(a.h + b.h, a.e + b.e)

\* a > b on floats
FloatGreater(a, b) == a.h > b.h \/ (a.h = b.h /\ a.e > b.e)

FloatMin(a, b) == IF FloatGreater(a, b) THEN b ELSE a

\* round(x, 2), in hundredths: e is far below half a hundredth
Round2(a) == a.h

----------------------------------------------------------------------------
(* ImageAnalyzer._calculate_light_confidence, _map_color_to_severity,         *)
(* _detect_color_lights.  A contour carries its area, the width and height of *)
(* its bounding box, the mean V (0..255) of that box, its hue and its centre. *)

\* lines 201-205
AreaScore(area) ==
    IF 50 < area /\ area < 500 THEN Literal(40)
    ELSE IF 20 < area /\ area < 1000 THEN Literal(20)
    ELSE Literal(0)

\* lines 207-211, on aspect_ratio = w / h (0 when h = 0)
AspectScore(w, h) ==
    IF h > 0 /\ h < 2 * w /\ w < 2 * h THEN Literal(30)
    ELSE IF h > 0 /\ 3 * h < 10 * w /\ w < 3 * h THEN Literal(10)
    ELSE Literal(0)

\* lines 213-219, on brightness = mean_v / 255.0
BrightnessScore(mean_v) ==
    IF 5 * mean_v > 3 * 255 THEN Literal(30)
    ELSE IF 5 * mean_v > 2 * 255 THEN Literal(20)
    ELSE IF 5 * mean_v > 255 THEN Literal(10)
    ELSE Literal(0)

_calculate_light_confidence(area, w, h, mean_v) ==
    FloatMin(FloatAdd(FloatAdd(AreaScore(area), AspectScore(w, h)), BrightnessScore(mean_v)),
             Literal(100))

\* a mutation of _map_color_to_severity: red is ranked with orange and amber
SeverityRedHigh(color) ==
    CASE color \in {"red", "orange", "amber"} -> "high"
      [] color = "yellow" -> "medium"
      [] color \in {"blue", "green"} -> "low"
      [] OTHER -> "medium"

_map_color_to_severity(color) ==
    CASE color = "red" -> "critical"
      [] color \in {"orange", "amber"} -> "high"
      [] color = "yellow" -> "medium"
      [] color \in {"blue", "green"} -> "low"
      [] OTHER -> "medium"

\* line 177: if confidence > 0.3
Accepted(confidence) == FloatGreater(confidence, Literal(30))

\* line 159: if 20 < area < 2000
AreaInRange(area) == 20 < area /\ area < 2000

\* lines 156-191 for one contour: the light it is reported as, if any
LightOf(contour, color_name) ==
    LET confidence == _calculate_light_confidence(contour.area, contour.w, contour.h,
                                                  contour.mean_v)
    IN  IF AreaInRange(contour.area) /\ Accepted(confidence)
        THEN << [ color |-> color_name,
                  position |-> contour.position,
                  area |-> contour.area,
                  confidence |-> Round2(confidence),
                  severity |-> _map_color_to_severity(color_name) ] >>
        ELSE << >>

RECURSIVE _detect_color_lights(_, _)
_detect_color_lights(contours, color_name) ==
    IF contours = << >> THEN << >>
    ELSE LightOf(Head(contours), color_name) \o _detect_color_lights(Tail(contours), color_name)

\* self.color_ranges: the hue intervals (OpenCV hue, 0..180), in dict order
color_ranges ==
    << [ color |-> "red", hues |-> (0..10) \cup (170..180) ],
       [ color |-> "yellow", hues |-> 20..30 ],
       [ color |-> "orange", hues |-> 10..20 ],
       [ color |-> "green", hues |-> 40..80 ],
       [ color |-> "blue", hues |-> 100..130 ],
       [ color |-> "amber", hues |-> 15..25 ] >>

\* cv2.inRange and cv2.findContours: the contours of the regions whose hue the mask
\* of the colour lets through
ContoursOf(image, hues) == SelectSeq(image, LAMBDA r : r.hue \in hues)

RECURSIVE DetectEachColor(_, _)
\* lines 123-125: for color_name, ranges in self.color_ranges.items()
DetectEachColor(image, k) ==
    IF k > Len(color_ranges) THEN << >>
    ELSE _detect_color_lights(ContoursOf(image, color_ranges[k].hues), color_ranges[k].color)
         \o DetectEachColor(image, k + 1)

----------------------------------------------------------------------------
(* Input domains of analyze_dashboard_image *)

MaxLights == 2

\* centres of detections: (18, 24) is exactly 30 pixels from (0, 0)
LightPositions ==
    { [ x |-> 0, y |-> 0 ], [ x |-> 10, y |-> 10 ], [ x |-> 18, y |-> 24 ],
      [ x |-> 100, y |-> 100 ] }

RawLights ==
    { [ color |-> "red", confidence |-> c, position |-> p ] :
        c \in {40, 90}, p \in LightPositions }

\* the uploaded bytes: whether cv2.imdecode makes an image of them, and what the
\* OpenCV detectors report on that image
ImageInputs ==
    { [ decodable |-> FALSE ] }
    \cup { [ decodable |-> TRUE, dashboard |-> d, raw_lights |-> l, quality_score |-> q ] :
             d \in BOOLEAN, l \in ListsUpTo(RawLights, MaxLights), q \in {0, 50, 100} }

----------------------------------------------------------------------------
(* ImageAnalyzer.analyze_dashboard_image, statement by statement *)

ImageInit ==
    /\ i_pc = "idle"
    /\ image_data = [ decodable |-> FALSE ]
    /\ dashboard_detected = FALSE
    /\ detected_lights = << >>
    /\ image_quality = NoResult
    /\ image_result = NoResult

CallImage ==
    /\ i_pc = "idle"
    /\ \E data \in ImageInputs : image_data' = data
    /\ i_pc' = "decode"
    /\ UNCHANGED <<dashboard_detected, detected_lights, image_quality, image_result>>
    /\ UNCHANGED not_image

\* lines 34-38: imdecode gives None (or raises) on bytes that are no image, and the
\* except branch answers
Decode ==
    /\ i_pc = "decode"
    /\ IF image_data.decodable
       THEN /\ i_pc' = "dashboard"
            /\ UNCHANGED image_result
       ELSE /\ i_pc' = "returned"
            /\ image_result' = ImageAnalysisFailed
    /\ UNCHANGED <<image_data, dashboard_detected, detected_lights, image_quality>>
    /\ UNCHANGED not_image

\* line 41; _detect_dashboard_area returns False when it fails inside
DetectDashboard ==
    /\ i_pc = "dashboard"
    /\ \E fails \in BOOLEAN :
          dashboard_detected' = IF fails THEN FALSE ELSE image_data.dashboard
    /\ i_pc' = "lights"
    /\ UNCHANGED <<image_data, detected_lights, image_quality, image_result>>
    /\ UNCHANGED not_image

\* line 44; _detect_warning_lights returns [] when it fails inside
DetectLights ==
    /\ i_pc = "lights"
    /\ \E fails \in BOOLEAN :
          detected_lights' = IF fails THEN << >>
                             ELSE _detect_warning_lights(image_data.raw_lights)
    /\ i_pc' = "quality"
    /\ UNCHANGED <<image_data, dashboard_detected, image_quality, image_result>>
    /\ UNCHANGED not_image

\* line 47; _analyze_image_quality returns score 0.5 when it fails inside
AnalyzeImageQuality ==
    /\ i_pc = "quality"
    /\ \E fails \in BOOLEAN :
          image_quality' = IF fails
                           THEN [ score |-> 50, issues |-> << "Quality analysis failed" >> ]
                           ELSE [ score |-> image_data.quality_score ]
    /\ i_pc' = "result"
    /\ UNCHANGED <<image_data, dashboard_detected, detected_lights, image_result>>
    /\ UNCHANGED not_image

\* lines 50-65
ImageReturn ==
    /\ i_pc = "result"
    /\ image_result' =
          [ dashboard_detected |-> dashboard_detected,
            detected_lights |-> detected_lights,
            image_quality |-> image_quality,
            overall_confidence |->
                _calculate_overall_confidence(detected_lights, dashboard_detected,
                                              image_quality),
            analysis_metadata |-> [ total_lights_found |-> Len(detected_lights),
                                    processing_successful |-> TRUE ] ]
    /\ i_pc' = "returned"
    /\ UNCHANGED <<image_data, dashboard_detected, detected_lights, image_quality>>
    /\ UNCHANGED not_image

ImageNext ==
    \/ CallImage \/ Decode \/ DetectDashboard \/ DetectLights \/ AnalyzeImageQuality
    \/ ImageReturn

----------------------------------------------------------------------------
(* AudioAnalyzer.validate_audio_format.  Strings are sequences of characters. *)

None == << "None" >>

AudioSlash == << "a", "u", "d", "i", "o", "/" >>

DotWav == << ".", "w", "a", "v" >>
DotMp3 == << ".", "m", "p", "3" >>
DotM4a == << ".", "m", "4", "a" >>
DotOgg == << ".", "o", "g", "g" >>
DotFlac == << ".", "f", "l", "a", "c" >>

\* self.supported_formats, as the list of its items
supported_formats ==
    << << AudioSlash \o << "w", "a", "v" >>, { DotWav } >>,
       << AudioSlash \o << "m", "p", "e", "g" >>, { DotMp3 } >>,
       << AudioSlash \o << "m", "p", "4" >>, { DotM4a } >>,
       << AudioSlash \o << "x", "-", "m", "4", "a" >>, { DotM4a } >>,
       << AudioSlash \o << "o", "g", "g" >>, { DotOgg } >>,
       << AudioSlash \o << "f", "l", "a", "c" >>, { DotFlac } >> >>

SupportedTypes == { supported_formats[i][1] : i \in DOMAIN supported_formats }

ExpectedExtensions(content_type) ==
    UNION { supported_formats[i][2] :
              i \in { j \in DOMAIN supported_formats : supported_formats[j][1] = content_type } }

\* str.startswith
StartsWith(str, prefix) ==
    Len(str) >= Len(prefix) /\ SubSeq(str, 1, Len(prefix)) = prefix

UpperCase == [ A |-> "a", M |-> "m", P |-> "p", V |-> "v", W |-> "w" ]

\* a mutation of Lower: the filename is compared as typed
LowerAsTyped(str) == str

\* str.lower, on the letters the model's filenames are made of
Lower(str) ==
    [ i \in DOMAIN str |-> IF str[i] \in DOMAIN UpperCase THEN UpperCase[str[i]] ELSE str[i] ]

\* os.path.splitext(p)[1]: from the last dot of the last path component on, unless
\* only dots precede that dot in the component
SplitExt(p) ==
    LET slashes == { i \in DOMAIN p : p[i] = "/" }
        start == IF slashes = {} THEN 1 ELSE 1 + CHOOSE i \in slashes : \A j \in slashes : j <= i
        dots == { i \in DOMAIN p : i >= start /\ p[i] = "." }
        last == CHOOSE i \in dots : \A j \in dots : j <= i
    IN  IF dots = {} THEN << >>
        ELSE IF \A i \in start..(last - 1) : p[i] = "." THEN << >>
        ELSE SubSeq(p, last, Len(p))

\* the try block raises: None has no startswith (AttributeError)
ValidationRaises(content_type, filename) == content_type = None

\* the pair (is_valid, message); lines 124-126 turn an exception into the third message
validate_audio_format(content_type, filename) ==
    IF ValidationRaises(content_type, filename)
    THEN << FALSE, "Audio format validation failed" >>
    ELSE IF ~StartsWith(content_type, AudioSlash)
    THEN << FALSE, "File must be an audio file" >>
    ELSE IF content_type \notin SupportedTypes
    THEN << FALSE, "Unsupported audio format" >>
    ELSE IF filename # None /\ filename # << >>
            /\ SplitExt(Lower(filename)) \notin ExpectedExtensions(content_type)
    THEN << FALSE, "File extension doesn't match content type" >>
    ELSE << TRUE, "Valid audio format" >>

----------------------------------------------------------------------------
(* Input domains of diagnose_engine_sound *)

ContentTypes ==
    { None,
      << "t", "e", "x", "t", "/", "p", "l", "a", "i", "n" >>,
      << "a", "u", "d", "i", "o" >>,
      AudioSlash \o << "a", "a", "c" >>,
      AudioSlash \o << "w", "a", "v" >>,
      AudioSlash \o << "m", "p", "e", "g" >>,
      AudioSlash \o << "x", "-", "m", "4", "a" >>,
      AudioSlash \o << "m", "p", "4" >>,
      AudioSlash \o << "o", "g", "g" >>,
      AudioSlash \o << "f", "l", "a", "c" >>,
      << "A", "u", "d", "i", "o", "/", "w", "a", "v" >> }

Filenames ==
    { None,
      << >>,
      << "e" >>,
      << "e" >> \o DotWav,
      << "e", ".", "W", "A", "V" >>,
      << "e" >> \o DotMp3,
      << "e" >> \o DotM4a,
      DotWav,
      << "e", ".", "w", "a", "v", ".", "t", "x", "t" >>,
      << "a", ".", "b", "/", "e" >>,
      << "e" >> \o DotOgg,
      << "e" >> \o DotFlac,
      << "e", ".", "M", "4", "A" >> }

Uploads == { [ content_type |-> c, filename |-> f ] : c \in ContentTypes, f \in Filenames }

----------------------------------------------------------------------------
(* One call of validate_audio_format *)

ValInit ==
    /\ val_input = [ content_type |-> None, filename |-> None ]
    /\ val_result = NoResult

ValidateCall ==
    /\ val_result = NoResult
    /\ \E upload \in Uploads :
          /\ val_input' = upload
          /\ val_result' = validate_audio_format(upload.content_type, upload.filename)
    /\ UNCHANGED not_val

----------------------------------------------------------------------------
(* services/gemini_service.py: the repair keywords of analyze_engine_sound *)

\* a list of distinct keywords: its members and its length
KeywordList(members) == [ drawn_from |-> members, size |-> Cardinality(members) ]

\* list(set(keywords))[:limit]
FirstOfSet(members, limit) ==
    [ drawn_from |-> members, size |-> Min(Cardinality(members), limit) ]

\* what the generative model may answer: text that is no JSON, or a JSON object
\* without repair_keywords, with an empty list, or with keywords of its own
ModelAnswers ==
    { [ parsed |-> FALSE ],
      [ parsed |-> TRUE, analysis |-> [ urgency_level |-> "warning" ] ],
      [ parsed |-> TRUE, analysis |-> [ urgency_level |-> "warning",
                                        repair_keywords |-> KeywordList({}) ] ],
      [ parsed |-> TRUE,
        analysis |-> [ urgency_level |-> "warning",
                       repair_keywords |-> KeywordList({"timing chain tensioner replacement",
                                                        "engine noise diagnosis"}) ] ] }

\* lines 317-325: "Ensure we have repair keywords"
_validate_and_enhance_engine_analysis(analysis, faults) ==
    IF Get(analysis, "repair_keywords", KeywordList({})).size = 0
    THEN [ k \in DOMAIN analysis \cup {"repair_keywords"} |->
             IF k = "repair_keywords"
             THEN IF faults # << >> THEN FirstOfSet(AllKeywords(faults), 6)
                  ELSE KeywordList({"engine maintenance", "engine diagnostic",
                                    "car engine inspection"})
             ELSE analysis[k] ]
    ELSE analysis

\* lines 405-483: the answer built without the generative model
_create_enhanced_fallback_engine_analysis(faults) ==
    IF faults = << >>
    THEN [ urgency_level |-> "normal",
           repair_keywords |-> KeywordList({"engine maintenance guide",
                                            "engine sound diagnosis",
                                            "preventive car maintenance"}) ]
    ELSE [ urgency_level |-> _determine_urgency_level(faults),
           repair_keywords |-> FirstOfSet(AllKeywords(faults), 6) ]

\* GeminiService.analyze_engine_sound: the parsed answer is validated, anything else
\* (a JSONDecodeError, any exception) gives the fallback
gemini_analyze_engine_sound(core, answer) ==
    LET faults == Get(core, "detected_faults", << >>)
    IN  IF answer.parsed
        THEN _validate_and_enhance_engine_analysis(answer.analysis, faults)
        ELSE _create_enhanced_fallback_engine_analysis(faults)

----------------------------------------------------------------------------
(* routers/diagnosis.py: diagnose_engine_sound, statement by statement *)

NoResponse == [ status |-> 0, detail |-> "none" ]

HTTPException(status_code, detail_text) == [ status |-> status_code, detail |-> detail_text ]

ReqInit ==
    /\ req_pc = "idle"
    /\ user_known = FALSE
    /\ audio = [ content_type |-> None, filename |-> None ]
    /\ events = << >>
    /\ response = NoResponse
    /\ audio_analysis = NoResult
    /\ gemini_analysis = NoResult
    /\ search_keywords = NoResult

ReceiveRequest ==
    /\ req_pc = "idle"
    /\ \E known \in BOOLEAN, upload \in Uploads :
          /\ user_known' = known
          /\ audio' = upload
    /\ req_pc' = "verify_user"
    /\ UNCHANGED <<events, response>>
    /\ UNCHANGED <<audio_analysis, gemini_analysis, search_keywords>>
    /\ UNCHANGED not_req

\* lines 195-199
VerifyUser ==
    /\ req_pc = "verify_user"
    /\ events' = Append(events, "verify_user")
    /\ IF user_known
       THEN /\ req_pc' = "validate"
            /\ UNCHANGED response
       ELSE /\ req_pc' = "done"
            /\ response' = HTTPException(404, "User not found")
    /\ UNCHANGED <<user_known, audio>>
    /\ UNCHANGED <<audio_analysis, gemini_analysis, search_keywords>>
    /\ UNCHANGED not_req

\* a mutation of Rejects: the result of the validation is ignored
RejectsNothing(is_valid) == FALSE

\* line 206: if not is_valid
Rejects(is_valid) == ~is_valid

\* lines 202-210
ValidateUpload ==
    /\ req_pc = "validate"
    /\ events' = Append(events, "validate")
    /\ LET validation == validate_audio_format(audio.content_type, audio.filename)
       IN  IF Rejects(validation[1])
           THEN /\ req_pc' = "done"
                /\ response' = HTTPException(400, validation[2])
           ELSE /\ req_pc' = "read"
                /\ UNCHANGED response
    /\ UNCHANGED <<user_known, audio>>
    /\ UNCHANGED <<audio_analysis, gemini_analysis, search_keywords>>
    /\ UNCHANGED not_req

\* line 213: audio_data = await audio.read()
ReadUpload ==
    /\ req_pc = "read"
    /\ events' = Append(events, "read")
    /\ req_pc' = "upload"
    /\ UNCHANGED <<user_known, audio, response>>
    /\ UNCHANGED <<audio_analysis, gemini_analysis, search_keywords>>
    /\ UNCHANGED not_req

\* lines 216-220: db.upload_engine_sound
StoreUpload ==
    /\ req_pc = "upload"
    /\ events' = Append(events, "upload")
    /\ req_pc' = "analyze"
    /\ UNCHANGED <<user_known, audio, response>>
    /\ UNCHANGED <<audio_analysis, gemini_analysis, search_keywords>>
    /\ UNCHANGED not_req

\* what analyze_engine_sound returns for a completed analysis: the fields the
\* request reads
CompletedAnalysis(faults) ==
    [ analysis_successful |-> TRUE,
      detected_faults |-> faults,
      repair_keywords |-> _extract_repair_keywords(faults) ]

\* lines 224-234: analyze_engine_sound, and the 400 when it reports a failed analysis
AnalyzeUpload ==
    /\ req_pc = "analyze"
    /\ events' = Append(events, "analyze")
    /\ \E result \in { _create_failed_analysis("Analysis failed") }
                       \cup { CompletedAnalysis(_detect_engine_faults(f.fa, f.patterns)) :
                                f \in FeatureScenarios } :
          /\ audio_analysis' = result
          /\ IF Get(result, "analysis_failed", FALSE)
             THEN /\ req_pc' = "done"
                  /\ response' = HTTPException(400, "Audio analysis failed")
             ELSE /\ req_pc' = "advise"
                  /\ UNCHANGED response
    /\ UNCHANGED <<user_known, audio>>
    /\ UNCHANGED <<gemini_analysis, search_keywords>>
    /\ UNCHANGED not_req

\* line 243: gemini_analysis.get("repair_keywords", ["engine diagnostic repair"])
SearchKeywords(narration) ==
    Get(narration, "repair_keywords", KeywordList({"engine diagnostic repair"}))

\* lines 237-244: gemini_service.analyze_engine_sound, then
\* youtube_service.search_tutorials(search_keywords)
Advise ==
    /\ req_pc = "advise"
    /\ events' = Append(events, "advise")
    /\ \E answer \in ModelAnswers :
          LET narration == gemini_analyze_engine_sound(audio_analysis, answer)
          IN  /\ gemini_analysis' = narration
              /\ search_keywords' = SearchKeywords(narration)
    /\ req_pc' = "save"
    /\ UNCHANGED <<user_known, audio, response>>
    /\ UNCHANGED audio_analysis
    /\ UNCHANGED not_req

\* lines 247-326: the record and the result are saved and the response is returned
SaveAndRespond ==
    /\ req_pc = "save"
    /\ events' = Append(events, "save")
    /\ req_pc' = "done"
    /\ response' = [ status |-> 200, detail |-> "completed" ]
    /\ UNCHANGED <<user_known, audio>>
    /\ UNCHANGED <<audio_analysis, gemini_analysis, search_keywords>>
    /\ UNCHANGED not_req

\* lines 331-336: a step that talks to the storage, the database or a remote service
\* raises something that is no HTTPException
StepRaises ==
    /\ req_pc \in { "read", "upload", "advise", "save" }
    /\ req_pc' = "done"
    /\ response' = HTTPException(500, "Engine sound diagnosis failed")
    /\ UNCHANGED <<user_known, audio, events>>
    /\ UNCHANGED <<audio_analysis, gemini_analysis, search_keywords>>
    /\ UNCHANGED not_req

ReqNext ==
    \/ ReceiveRequest \/ VerifyUser \/ ValidateUpload \/ ReadUpload \/ StoreUpload
    \/ AnalyzeUpload \/ Advise \/ SaveAndRespond \/ StepRaises

----------------------------------------------------------------------------
(* One call of _remove_overlapping_lights *)

MaxCandidates == 3

\* centres on a line 20 pixels apart, and (18, 24), exactly 30 pixels from (0, 0)
CandidatePositions ==
    { [ x |-> 0, y |-> 0 ], [ x |-> 20, y |-> 0 ], [ x |-> 40, y |-> 0 ],
      [ x |-> 18, y |-> 24 ] }

CandidateLights ==
    { [ color |-> col, confidence |-> c, position |-> p ] :
        col \in {"red", "amber"}, c \in {40, 90}, p \in CandidatePositions }

DedupInit ==
    /\ dedup_pc = "idle"
    /\ candidate_lights = << >>
    /\ kept_lights = << >>

RemoveOverlappingCall ==
    /\ dedup_pc = "idle"
    /\ dedup_pc' = "done"
    /\ \E lights \in ListsUpTo(CandidateLights, MaxCandidates) :
          /\ candidate_lights' = lights
          /\ kept_lights' = _remove_overlapping_lights(lights)
    /\ UNCHANGED not_dedup

----------------------------------------------------------------------------
(* One call of _detect_warning_lights on the coloured regions of an image *)

MaxRegions == 1

\* hue 5 is red only, hue 10 lies in the red and in the orange interval
RegionHues == {5, 10}

RegionAreas == {20, 30, 200, 1500, 2000}

\* bounding boxes of aspect ratio 1.0, 0.4, 0.3, and one of height 0
RegionBoxes == { <<10, 10>>, <<4, 10>>, <<3, 10>>, <<10, 0>> }

\* mean V of the box: brightness 0.2, 0.204, 0.404, 0.8
RegionMeanV == {51, 52, 103, 204}

RegionPositions == { [ x |-> 50, y |-> 50 ], [ x |-> 200, y |-> 50 ] }

Regions ==
    { [ hue |-> hue, area |-> a, w |-> box[1], h |-> box[2], mean_v |-> v, position |-> p ] :
        hue \in RegionHues, a \in RegionAreas, box \in RegionBoxes, v \in RegionMeanV,
        p \in RegionPositions }

LightsInit ==
    /\ lights_pc = "idle"
    /\ regions = << >>
    /\ reported_lights = << >>
    /\ warning_lights = << >>

\* lines 115-133
DetectWarningLightsCall ==
    /\ lights_pc = "idle"
    /\ lights_pc' = "done"
    /\ \E image \in ListsUpTo(Regions, MaxRegions) :
          /\ regions' = image
          /\ reported_lights' = DetectEachColor(image, 1)
          /\ warning_lights' = _detect_warning_lights(DetectEachColor(image, 1))
    /\ UNCHANGED not_lights

----------------------------------------------------------------------------
(* The shared analyzer instances (audio_analyzer.py line 816, image_analyzer.py  *)
(* line 336) under concurrent calls. A fault dict of a call holds references to   *)
(* the keywords, frequency_range and characteristics objects of its table entry:  *)
(* it is kept as the name of that entry.                                          *)

MaxCalls == 2

CallIds == 1..MaxCalls

IdleCall == [ op |-> "none", pc |-> "idle", faults |-> << >>, keywords |-> << >>,
              result |-> NoResult ]

\* the uploads and images the concurrent calls are made with
TableUploads ==
    { [ content_type |-> AudioSlash \o << "w", "a", "v" >>, filename |-> << "e" >> \o DotWav ],
      [ content_type |-> AudioSlash \o << "a", "a", "c" >>, filename |-> None ],
      [ content_type |-> AudioSlash \o << "m", "p", "e", "g" >>, filename |-> << "e" >> \o DotWav ] }

TableImages ==
    { << >>,
      << [ hue |-> 10, area |-> 200, w |-> 10, h |-> 10, mean_v |-> 204,
           position |-> [ x |-> 0, y |-> 0 ] ] >> }

TblInit ==
    /\ self_engine_fault_patterns = engine_fault_patterns
    /\ self_supported_formats = supported_formats
    /\ self_color_ranges = color_ranges
    /\ calls = [ c \in CallIds |-> IdleCall ]

\* lines 366-436 of analyze_engine_sound's step 4: the table is iterated and each
\* candidate dict refers to the objects of its entry
CallAnalyzeEngineSound ==
    /\ \E c \in CallIds, f \in FeatureScenarios :
          /\ calls[c].pc = "idle"
          /\ LET detected == _detect_engine_faults(f.fa, f.patterns)
             IN  calls' = [ calls EXCEPT ![c] =
                     [ IdleCall EXCEPT !.op = "analyze_engine_sound", !.pc = "extract",
                         !.faults = [ i \in DOMAIN detected |-> detected[i].name ] ] ]
    /\ UNCHANGED <<self_engine_fault_patterns, self_supported_formats, self_color_ranges>>
    /\ UNCHANGED not_tbl

\* a mutation of KeywordsObject: keywords starts as the keyword list of the first
\* fault instead of a new list
KeywordsObjectAliased(faults) == IF faults = << >> THEN "local" ELSE faults[1]

\* line 578, keywords = []: the list that line 580 extends is a new one ("local"),
\* not an object of the table
KeywordsObject(faults) == "local"

RECURSIVE Gathered(_, _)
\* lines 579-580: what the loop appends, read through the references of the faults
Gathered(faults, table) ==
    IF faults = << >> THEN << >>
    ELSE table[Head(faults)].keywords \o Gathered(Tail(faults), table)

\* _extract_repair_keywords, called at line 189: keywords.extend(...) writes to the
\* object KeywordsObject names
ExtractRepairKeywords ==
    /\ \E c \in CallIds :
          /\ calls[c].pc = "extract"
          /\ LET object == KeywordsObject(calls[c].faults)
                 extension == Gathered(calls[c].faults, self_engine_fault_patterns)
             IN  IF object = "local"
                 THEN /\ calls' = [ calls EXCEPT ![c].pc = "done", ![c].keywords = extension ]
                      /\ UNCHANGED self_engine_fault_patterns
                 ELSE /\ self_engine_fault_patterns' =
                            [ self_engine_fault_patterns EXCEPT
                                ![object].keywords = @ \o extension ]
                      /\ calls' = [ calls EXCEPT ![c].pc = "done",
                                      ![c].keywords =
                                          self_engine_fault_patterns[object].keywords
                                            \o extension ]
    /\ UNCHANGED <<self_supported_formats, self_color_ranges>>
    /\ UNCHANGED not_tbl

\* validate_audio_format: self.supported_formats is read at lines 111, 112 and 118
CallValidateAudioFormat ==
    /\ \E c \in CallIds, upload \in TableUploads :
          /\ calls[c].pc = "idle"
          /\ calls' = [ calls EXCEPT ![c] =
                [ IdleCall EXCEPT !.op = "validate_audio_format", !.pc = "done",
                    !.result = validate_audio_format(upload.content_type, upload.filename) ] ]
    /\ UNCHANGED <<self_engine_fault_patterns, self_supported_formats, self_color_ranges>>
    /\ UNCHANGED not_tbl

\* analyze_dashboard_image: self.color_ranges is iterated at line 124
CallAnalyzeDashboardImage ==
    /\ \E c \in CallIds, image \in TableImages :
          /\ calls[c].pc = "idle"
          /\ calls' = [ calls EXCEPT ![c] =
                [ IdleCall EXCEPT !.op = "analyze_dashboard_image", !.pc = "done",
                    !.result = _detect_warning_lights(DetectEachColor(image, 1)) ] ]
    /\ UNCHANGED <<self_engine_fault_patterns, self_supported_formats, self_color_ranges>>
    /\ UNCHANGED not_tbl

\* the call returns and its caller may call again
ReturnCall ==
    /\ \E c \in CallIds :
          /\ calls[c].pc = "done"
          /\ calls' = [ calls EXCEPT ![c] = IdleCall ]
    /\ UNCHANGED <<self_engine_fault_patterns, self_supported_formats, self_color_ranges>>
    /\ UNCHANGED not_tbl

TblNext ==
    \/ CallAnalyzeEngineSound \/ ExtractRepairKeywords \/ CallValidateAudioFormat
    \/ CallAnalyzeDashboardImage \/ ReturnCall

----------------------------------------------------------------------------
(* AudioAnalyzer._detect_sound_patterns, statement by statement *)

\* the thresholds of lines 303, 314, 324, 334 and 343, in tenths
PatternThreshold ==
    [ rhythmic |-> 4, continuous |-> 6, impulsive |-> 3, harmonic |-> 3, noise |-> 5 ]

Detectors == { DetectorOrder[i] : i \in DOMAIN DetectorOrder }

\* lines 296-299: the features computed before the detectors run
SharedFeatures == { "mfcc", "chroma", "beat_track", "onset_detect" }

\* the detector a shared feature is handed to (lines 302, 322, 332); mfccs is unused
FeatureOf ==
    [ rhythmic |-> "beat_track", impulsive |-> "onset_detect", harmonic |-> "chroma",
      continuous |-> "none", noise |-> "none" ]

PatInit ==
    /\ pat_pc = "idle"
    /\ pat_strengths = [ d \in Detectors |-> 0 ]
    /\ pat_failure = "none"
    /\ pattern_list = << >>

\* line 294: patterns = []; each detector's strength for the clip is at its threshold
\* or one tenth above it
DetectPatternsCall ==
    /\ pat_pc = "idle"
    /\ \E above \in SUBSET Detectors, failure \in {"none"} \cup Detectors \cup SharedFeatures :
          /\ pat_strengths' = [ d \in Detectors |->
                                 PatternThreshold[d] + (IF d \in above THEN 1 ELSE 0) ]
          /\ pat_failure' = failure
    /\ pattern_list' = << >>
    /\ pat_pc' = "features"
    /\ UNCHANGED not_pat

\* lines 296-299: mfcc, chroma, beat_track and onset_detect return
ComputeFeatures ==
    /\ pat_pc = "features"
    /\ pat_failure \notin SharedFeatures
    /\ pat_pc' = DetectorOrder[1]
    /\ UNCHANGED <<pat_strengths, pat_failure, pattern_list>>
    /\ UNCHANGED not_pat

\* lines 296-299 raise: the except of lines 352-354 returns []
ComputeFeaturesRaises ==
    /\ pat_pc = "features"
    /\ pat_failure \in SharedFeatures
    /\ pattern_list' = << >>
    /\ pat_pc' = "done"
    /\ UNCHANGED <<pat_strengths, pat_failure>>
    /\ UNCHANGED not_pat

\* _analyze_rhythmic_patterns .. _analyze_noise_patterns: the strength, or 0.0 from
\* the detector's own except
DetectorStrength(detector, strengths, failure) ==
    IF failure = detector THEN 0 ELSE strengths[detector]

\* lines 301-348: one detector runs and its pattern is appended when the strength
\* exceeds the threshold
RunDetector ==
    /\ pat_pc \in Detectors
    /\ LET strength == DetectorStrength(pat_pc, pat_strengths, pat_failure)
           k == DetectorIndex(pat_pc)
       IN  /\ pattern_list' = IF strength > PatternThreshold[pat_pc]
                              THEN Append(pattern_list,
                                          [ pattern_type |-> pat_pc, strength |-> strength ])
                              ELSE pattern_list
           /\ pat_pc' = IF k < Len(DetectorOrder) THEN DetectorOrder[k + 1] ELSE "done"
    /\ UNCHANGED <<pat_strengths, pat_failure>>
    /\ UNCHANGED not_pat

PatNext == DetectPatternsCall \/ ComputeFeatures \/ ComputeFeaturesRaises \/ RunDetector

----------------------------------------------------------------------------
(* AudioAnalyzer._analyze_anomaly_duration. Times are kept in samples, that is in  *)
(* units of 1/sr seconds.                                                        *)

\* line 497
hop_length == 512

\* librosa.feature.rms pads the signal (center=True): 1 + len(y) // hop_length frames
FrameCount(len_y) == 1 + len_y \div hop_length

\* lines 501-502: rms > mean(rms) + 2 * std(rms), on whole numbers:
\* n*x - S > 0 and (n*x - S)^2 > 4 * (n * sum(x^2) - S^2)
AnomalousFrames(levels) ==
    LET n == Len(levels)
        total == SumSeq(levels)
        squares == SumSeq([ i \in DOMAIN levels |-> levels[i] * levels[i] ])
    IN  [ i \in DOMAIN levels |->
            /\ n * levels[i] - total > 0
            /\ (n * levels[i] - total) * (n * levels[i] - total)
                 > 4 * (n * squares - total * total) ]

\* lines 518-523: the region closed at frame i (0-based) by a frame that is not anomalous
ClosedRegion(start_frame, i) ==
    [ start_time |-> start_frame * hop_length,
      duration |-> (i - start_frame) * hop_length,
      end_time |-> i * hop_length ]

RECURSIVE ScanFrames(_, _, _, _, _)
\* lines 513-524: the loop, from frame i (0-based) on
ScanFrames(flags, i, in_anomaly, start_frame, found) ==
    IF i >= Len(flags)
    THEN [ in_anomaly |-> in_anomaly, start_frame |-> start_frame, regions |-> found ]
    ELSE IF flags[i + 1] /\ ~in_anomaly
         THEN ScanFrames(flags, i + 1, TRUE, i, found)
    ELSE IF ~flags[i + 1] /\ in_anomaly
         THEN ScanFrames(flags, i + 1, FALSE, start_frame,
                         Append(found, ClosedRegion(start_frame, i)))
    ELSE ScanFrames(flags, i + 1, in_anomaly, start_frame, found)

\* a mutation of LastRegion: a run that reaches the last frame is not reported
LastRegionDropped(scan, flags, len_y) == << >>

\* lines 527-533: "Handle case where anomaly continues to end"
LastRegion(scan, flags, len_y) ==
    IF scan.in_anomaly
    THEN << [ start_time |-> scan.start_frame * hop_length,
              duration |-> (Len(flags) - scan.start_frame) * hop_length,
              end_time |-> len_y ] >>
    ELSE << >>

\* lines 510-533: the local anomaly_regions
AnomalyRegions(levels, len_y) ==
    LET flags == AnomalousFrames(levels)
        scan == ScanFrames(flags, 0, FALSE, 0, << >>)
    IN  scan.regions \o LastRegion(scan, flags, len_y)

\* lines 536-553, without the rounded averages: anomaly_regions[:10]
AnomalyReport(found) ==
    [ anomaly_count |-> Len(found),
      total_anomaly_time |-> SumSeq([ i \in DOMAIN found |-> found[i].duration ]),
      max_anomaly_duration |->
          IF found = << >> THEN 0 ELSE MaxSeq([ i \in DOMAIN found |-> found[i].duration ]),
      anomaly_regions |-> SubSeq(found, 1, Min(Len(found), 10)) ]

MaxFrames == 12

\* the frames of level 1 among frames of level 0: at most two frames anywhere in a
\* short clip, and combs of 11 or 12 isolated frames in clips of 56 to 61 frames
Levels(n, high) == [ i \in 1..n |-> IF i \in high THEN 1 ELSE 0 ]

Comb(first, teeth) == { first + 2 * j : j \in 0..(teeth - 1) }

RmsInputs ==
    UNION { { Levels(n, {a, b}) : a, b \in 1..n } \cup { Levels(n, {}) } : n \in 1..MaxFrames }
    \cup { Levels(56, Comb(1, 11)), Levels(56, Comb(36, 11)),
           Levels(61, Comb(1, 12)), Levels(61, Comb(39, 12)), Levels(61, Comb(20, 12)) }

AnomInit ==
    /\ anom_pc = "idle"
    /\ rms = << >>
    /\ audio_len = 0
    /\ anomaly_regions = << >>
    /\ anomaly_result = NoResult

\* one call, on a clip of len_y > 0 samples that has Len(levels) frames
AnalyzeAnomalyCall ==
    /\ anom_pc = "idle"
    /\ anom_pc' = "done"
    /\ \E levels \in RmsInputs, rest \in {0, hop_length - 1} :
          LET len_y == (Len(levels) - 1) * hop_length + rest
          IN  /\ len_y > 0
              /\ FrameCount(len_y) = Len(levels)
              /\ rms' = levels
              /\ audio_len' = len_y
              /\ anomaly_regions' = AnomalyRegions(levels, len_y)
              /\ anomaly_result' = AnomalyReport(AnomalyRegions(levels, len_y))
    /\ UNCHANGED not_anom

----------------------------------------------------------------------------
(* services/gemini_service.py: the urgency of a dashboard analysis *)

RECURSIVE ValidatedUrgency(_, _)
\* lines 252-260 of _validate_and_enhance_dashboard_analysis: the loop, with its break
ValidatedUrgency(lights, max_urgency) ==
    IF lights = << >> THEN max_urgency
    ELSE LET color == Get(Head(lights), "color", "")
         IN  IF color \in {"red"} THEN "critical"
             ELSE IF color \in {"yellow", "orange", "amber"}
                  THEN ValidatedUrgency(Tail(lights), "warning")
             ELSE IF color \in {"green", "blue"}
                  THEN ValidatedUrgency(Tail(lights), "normal")
             ELSE ValidatedUrgency(Tail(lights), max_urgency)

\* lines 250-263: the urgency of the parsed answer is overridden when there are lights
_validate_and_enhance_dashboard_analysis(analysis, lights) ==
    IF lights # << >>
    THEN [ analysis EXCEPT !.urgency_level = ValidatedUrgency(lights, "normal") ]
    ELSE analysis

RECURSIVE FallbackUrgency(_, _)
\* lines 360-377 of _create_enhanced_fallback_dashboard_analysis: the loop
FallbackUrgency(lights, urgency) ==
    IF lights = << >> THEN urgency
    ELSE LET color == Get(Head(lights), "color", "unknown")
         IN  IF color = "red" THEN FallbackUrgency(Tail(lights), "critical")
             ELSE IF color \in {"yellow", "orange", "amber"}
                  THEN FallbackUrgency(Tail(lights),
                                       IF urgency # "critical" THEN "warning" ELSE urgency)
             ELSE FallbackUrgency(Tail(lights), urgency)

\* lines 329-403
_create_enhanced_fallback_dashboard_analysis(lights) ==
    [ urgency_level |-> IF lights = << >> THEN "normal" ELSE FallbackUrgency(lights, "normal") ]

MaxDashLights == 3

DashColors == { color_ranges[i].color : i \in DOMAIN color_ranges }

DashLightLists == ListsUpTo({ [ color |-> col ] : col \in DashColors }, MaxDashLights)

DashInit ==
    /\ dash_pc = "idle"
    /\ dash_lights = << >>
    /\ dash_analysis = NoResult

\* analyze_dashboard_lights, lines 100-112: the generative model's answer is parsed
\* and validated
ValidateDashboardCall ==
    /\ dash_pc = "idle"
    /\ dash_pc' = "validated"
    /\ \E lights \in DashLightLists, answered \in {"normal", "warning", "critical"} :
          /\ dash_lights' = lights
          /\ dash_analysis' =
                _validate_and_enhance_dashboard_analysis([ urgency_level |-> answered ], lights)
    /\ UNCHANGED not_dash

\* analyze_dashboard_lights, lines 114-120: the answer is no JSON, or anything raised
FallbackDashboardCall ==
    /\ dash_pc = "idle"
    /\ dash_pc' = "fallback"
    /\ \E lights \in DashLightLists :
          /\ dash_lights' = lights
          /\ dash_analysis' = _create_enhanced_fallback_dashboard_analysis(lights)
    /\ UNCHANGED not_dash

DashNext == ValidateDashboardCall \/ FallbackDashboardCall

----------------------------------------------------------------------------
(* routers/diagnosis.py: diagnose_dashboard_image, statement by statement *)

\* analyze_dashboard_image as one call: bytes that do not decode raise inside its
\* try and give the failure dict of lines 67-78
analyze_dashboard_image(data) ==
    IF ~data.decodable THEN ImageAnalysisFailed
    ELSE LET lights == _detect_warning_lights(data.raw_lights)
             quality == [ score |-> data.quality_score ]
         IN  [ dashboard_detected |-> data.dashboard,
               detected_lights |-> lights,
               image_quality |-> quality,
               overall_confidence |->
                   _calculate_overall_confidence(lights, data.dashboard, quality),
               analysis_metadata |-> [ total_lights_found |-> Len(lights),
                                       processing_successful |-> TRUE ] ]

\* GeminiService.analyze_dashboard_lights: the parsed answer is validated, anything
\* else gives the fallback
analyze_dashboard_lights(core, answer) ==
    LET lights == Get(core, "detected_lights", << >>)
    IN  IF answer.parsed
        THEN _validate_and_enhance_dashboard_analysis(answer.analysis, lights)
        ELSE _create_enhanced_fallback_dashboard_analysis(lights)

DashboardAnswers ==
    { [ parsed |-> FALSE ],
      [ parsed |-> TRUE, analysis |-> [ urgency_level |-> "warning" ] ] }

\* the uploads: a content type beginning with image/ or not, and bytes that decode
\* to a picture with up to one detection or do not decode
DashboardUploads ==
    { [ is_image |-> t, data |-> d ] :
        t \in BOOLEAN,
        d \in { [ decodable |-> FALSE ] }
              \cup { [ decodable |-> TRUE, dashboard |-> b, raw_lights |-> l,
                       quality_score |-> 50 ] :
                       b \in BOOLEAN, l \in ListsUpTo(RawLights, 1) } }

DrqInit ==
    /\ drq_pc = "idle"
    /\ drq_user_known = FALSE
    /\ image_upload = [ is_image |-> FALSE, data |-> [ decodable |-> FALSE ] ]
    /\ image_analysis = NoResult
    /\ dashboard_advice = NoResult
    /\ saved_records = << >>
    /\ drq_response = NoResponse

DashReceiveRequest ==
    /\ drq_pc = "idle"
    /\ \E known \in BOOLEAN, upload \in DashboardUploads :
          /\ drq_user_known' = known
          /\ image_upload' = upload
    /\ drq_pc' = "verify_user"
    /\ UNCHANGED <<image_analysis, dashboard_advice, saved_records, drq_response>>
    /\ UNCHANGED not_drq

\* lines 53-57
DashVerifyUser ==
    /\ drq_pc = "verify_user"
    /\ IF drq_user_known
       THEN /\ drq_pc' = "validate"
            /\ UNCHANGED drq_response
       ELSE /\ drq_pc' = "done"
            /\ drq_response' = HTTPException(404, "User not found")
    /\ UNCHANGED <<drq_user_known, image_upload, image_analysis, dashboard_advice, saved_records>>
    /\ UNCHANGED not_drq

\* lines 60-64: if not image.content_type.startswith('image/')
DashValidateImage ==
    /\ drq_pc = "validate"
    /\ IF image_upload.is_image
       THEN /\ drq_pc' = "upload"
            /\ UNCHANGED drq_response
       ELSE /\ drq_pc' = "done"
            /\ drq_response' = HTTPException(400, "File must be an image")
    /\ UNCHANGED <<drq_user_known, image_upload, image_analysis, dashboard_advice, saved_records>>
    /\ UNCHANGED not_drq

\* lines 67-79: image.read(), uuid4(), db.upload_dashboard_image
DashStoreImage ==
    /\ drq_pc = "upload"
    /\ drq_pc' = "analyze"
    /\ UNCHANGED <<drq_user_known, image_upload, image_analysis, dashboard_advice, saved_records,
                   drq_response>>
    /\ UNCHANGED not_drq

\* lines 82-86: image_analyzer.analyze_dashboard_image; the result is not inspected
DashAnalyzeImage ==
    /\ drq_pc = "analyze"
    /\ image_analysis' = analyze_dashboard_image(image_upload.data)
    /\ drq_pc' = "advise"
    /\ UNCHANGED <<drq_user_known, image_upload, dashboard_advice, saved_records, drq_response>>
    /\ UNCHANGED not_drq

\* lines 88-96: gemini_service.analyze_dashboard_lights and the tutorial search
DashAdvise ==
    /\ drq_pc = "advise"
    /\ \E answer \in DashboardAnswers :
          dashboard_advice' = analyze_dashboard_lights(image_analysis, answer)
    /\ drq_pc' = "save_record"
    /\ UNCHANGED <<drq_user_known, image_upload, image_analysis, saved_records,
                   drq_response>>
    /\ UNCHANGED not_drq

\* lines 98-108: the diagnostic record and db.save_diagnostic_record
DashSaveRecord ==
    /\ drq_pc = "save_record"
    /\ saved_records' = Append(saved_records,
                               [ diagnosis_type |-> "dashboard_scan",
                                 status |-> "completed" ])
    /\ drq_pc' = "save_result"
    /\ UNCHANGED <<drq_user_known, image_upload, image_analysis, dashboard_advice, drq_response>>
    /\ UNCHANGED not_drq

\* lines 110-175: db.save_diagnostic_result and the response
DashSaveResultAndRespond ==
    /\ drq_pc = "save_result"
    /\ drq_pc' = "done"
    /\ drq_response' = [ status |-> 200, detail |-> "completed" ]
    /\ UNCHANGED <<drq_user_known, image_upload, image_analysis, dashboard_advice, saved_records>>
    /\ UNCHANGED not_drq

\* lines 177-184: a step that talks to the storage, the database or the tutorial
\* search raises something that is no HTTPException
DashStepRaises ==
    /\ drq_pc \in { "upload", "advise", "save_record", "save_result" }
    /\ drq_pc' = "done"
    /\ drq_response' = HTTPException(500, "Dashboard diagnosis failed")
    /\ UNCHANGED <<drq_user_known, image_upload, image_analysis, dashboard_advice, saved_records>>
    /\ UNCHANGED not_drq

DrqNext ==
    \/ DashReceiveRequest \/ DashVerifyUser \/ DashValidateImage \/ DashStoreImage
    \/ DashAnalyzeImage \/ DashAdvise \/ DashSaveRecord \/ DashSaveResultAndRespond
    \/ DashStepRaises

----------------------------------------------------------------------------
(* Specifications *)

Init == FmInit /\ UrgInit /\ AudioInit /\ ImageInit /\ ReqInit /\ ValInit /\
        DedupInit /\ LightsInit /\ TblInit /\ PatInit /\ AnomInit /\ DashInit /\ DrqInit

\* the fault matcher
SpecFaults == Init /\ [][FmNext]_vars

\* the urgency derivation
SpecUrgency == Init /\ [][DetermineUrgency]_vars

\* one call of analyze_engine_sound
SpecAudio == Init /\ [][AudioNext]_vars

\* one call of analyze_dashboard_image
SpecImage == Init /\ [][ImageNext]_vars

\* one request to POST /diagnose/engine-sound
SpecRequest == Init /\ [][ReqNext]_vars

\* one call of validate_audio_format
SpecValidate == Init /\ [][ValidateCall]_vars

\* one call of _remove_overlapping_lights
SpecDedup == Init /\ [][RemoveOverlappingCall]_vars

\* one call of _detect_warning_lights
SpecLights == Init /\ [][DetectWarningLightsCall]_vars

\* concurrent calls on the shared analyzer instances
SpecTables == Init /\ [][TblNext]_vars

\* one call of _detect_sound_patterns
SpecPatterns == Init /\ [][PatNext]_vars

\* one call of _analyze_anomaly_duration
SpecAnomaly == Init /\ [][AnalyzeAnomalyCall]_vars

\* one dashboard narration
SpecDashboard == Init /\ [][DashNext]_vars

SpecDashRequest == Init /\ [][DrqNext]_vars

----------------------------------------------------------------------------
(* Claims about the fault matcher *)

UrgencyAt(i) == Get(urgency_input[i], "urgency", "none")

\* C1: for every list of fault candidates, _determine_urgency_level returns critical
\* if at least one candidate has urgency critical, wherever it stands in the list;
\* otherwise warning if at least one has urgency warning; otherwise normal, also for
\* the empty list.
C1_UrgencyDerivation ==
    urgency_level # "none" =>
        /\ (\E i \in DOMAIN urgency_input : UrgencyAt(i) = "critical")
              => urgency_level = "critical"
        /\ ( /\ \A i \in DOMAIN urgency_input : UrgencyAt(i) # "critical"
             /\ \E i \in DOMAIN urgency_input : UrgencyAt(i) = "warning" )
              => urgency_level = "warning"
        /\ (\A i \in DOMAIN urgency_input : UrgencyAt(i) \notin {"critical", "warning"})
              => urgency_level = "normal"

\* a list whose only critical candidate stands last, behind a normal and a warning one
C1_Witness ==
    /\ Len(urgency_input) = 3
    /\ UrgencyAt(1) = "normal" /\ UrgencyAt(2) = "warning" /\ UrgencyAt(3) = "critical"
    /\ urgency_level = "critical"

IsCandidate(faults, n) == \E i \in DOMAIN faults : faults[i].name = n

\* the confidence reported for signature n, 0 when it is not reported
ConfidenceOf(faults, n) ==
    IF IsCandidate(faults, n)
    THEN faults[CHOOSE i \in DOMAIN faults : faults[i].name = n].confidence
    ELSE 0

\* C2: a signature is emitted as a FaultCandidate exactly when its accumulated
\* confidence is strictly greater than 0.4 (and then once); an accumulated
\* confidence of exactly 0.4 produces no candidate.
C2_StrictThreshold ==
    fm_pc = "done" =>
        /\ \A n \in FaultNames : IsCandidate(detected_faults, n) <=> accumulated[n] > FaultThreshold
        /\ \A i, j \in DOMAIN detected_faults :
              detected_faults[i].name = detected_faults[j].name => i = j

\* one signature stands exactly at 0.4 and is not reported while another is reported
C2_Witness ==
    /\ fm_pc = "done"
    /\ \E n \in FaultNames :
          accumulated[n] = FaultThreshold /\ ~IsCandidate(detected_faults, n)
    /\ detected_faults # << >>

\* C3: a call that differs from the previous one by one more matching evidence source
\* (dominant frequency, a peak, the band energies, a sound pattern) never lowers the
\* accumulated or the reported confidence of any signature, and no reported
\* confidence exceeds 1.0.
C3_MonotonicCapped ==
    /\ [][ (SetDominant \/ SetBands \/ AddPeak \/ AddPattern) =>
              \A n \in FaultNames :
                 /\ accumulated'[n] >= accumulated[n]
                 /\ ConfidenceOf(detected_faults', n) >= ConfidenceOf(detected_faults, n) ]_vars
    /\ [](\A i \in DOMAIN detected_faults : detected_faults[i].confidence <= ConfOne)

\* a signature whose accumulated confidence passed 1.0 and is reported as 1.0
C3_Witness ==
    /\ fm_pc = "done"
    /\ \E n \in FaultNames :
          accumulated[n] > ConfOne /\ ConfidenceOf(detected_faults, n) = ConfOne

TableIndex(n) == CHOOSE i \in DOMAIN FaultOrder : FaultOrder[i] = n

\* C4: the returned list is in non-increasing order of reported confidence, and two
\* candidates of equal reported confidence stand in table-declaration order.
C4_StableDescending ==
    \A i, j \in DOMAIN detected_faults :
        i < j =>
          /\ detected_faults[i].confidence >= detected_faults[j].confidence
          /\ detected_faults[i].confidence = detected_faults[j].confidence
                => TableIndex(detected_faults[i].name) < TableIndex(detected_faults[j].name)

\* two candidates both capped at 1.0, in a list that the sort had to reorder
C4_Witness ==
    /\ \E i, j \in DOMAIN detected_faults :
          /\ i < j
          /\ accumulated[detected_faults[i].name] > ConfOne
          /\ accumulated[detected_faults[j].name] > ConfOne
    /\ \E i, j \in DOMAIN detected_faults :
          i < j /\ TableIndex(detected_faults[i].name) > TableIndex(detected_faults[j].name)


----------------------------------------------------------------------------
(* Claims about analyze_engine_sound *)

Returned == a_pc = "returned"

\* every sample of the waveform is zero (the empty waveform included)
AllZero(w) == \A i \in DOMAIN w.blocks : w.blocks[i] = 0

\* the call decoded a waveform: librosa.load returned
Decoded == audio_data.decodable /\ a_path \in {"empty", "step_raised", "success"}

InUnitInterval(f) == f.num >= 0 /\ f.num <= f.den

\* C5: for a valid non-silent waveform (non-empty, amplitudes in [-1,1], not all
\* zero) the result has overall_confidence in [0,1] and audio_quality.score in
\* [0,1] (the score is kept in thousandths), whatever was detected.
C5_ScoresInUnitInterval ==
    (Returned /\ Decoded /\ NumSamples(audio_y) > 0 /\ ~AllZero(audio_y))
        => /\ InUnitInterval(audio_result.overall_confidence)
           /\ audio_result.audio_quality.score >= 0
           /\ audio_result.audio_quality.score <= 1000

\* a completed analysis of a faint, non-silent clip reports a negative quality score
C5_Witness ==
    /\ Returned /\ a_path = "success"
    /\ ~AllZero(audio_y)
    /\ audio_result.analysis_successful
    /\ audio_result.audio_quality.score < 0

\* the failed-analysis result the caller is promised
IsFailedAnalysis(r) ==
    /\ r.analysis_successful = FALSE
    /\ "error_message" \in DOMAIN r
    /\ r.detected_faults = << >>
    /\ r.sound_patterns = << >>
    /\ r.overall_confidence.num = 0
    /\ r.audio_quality.score = 0
    /\ r.urgency_level = "normal"
    /\ r.analysis_metadata.processing_successful = FALSE

FailurePaths == { "create_raised", "write_raised", "load_failed", "empty", "step_raised" }

\* C6: analyze_engine_sound never raises to its caller; when loading fails, when
\* the waveform is empty or when a later step raises, what it returns is the
\* failed-analysis result: analysis_successful false, an error message, no faults,
\* no patterns, overall_confidence 0, quality score 0, urgency normal,
\* processing_successful false.
C6_NeverRaises ==
    /\ a_pc # "raised"
    /\ (Returned /\ a_path \in FailurePaths) => IsFailedAnalysis(audio_result)

\* a step after the load raised, and the call returned the failed analysis
C6_Witness ==
    /\ Returned /\ a_path = "step_raised"
    /\ audio_result.analysis_successful = FALSE

\* C8: if the decoded waveform is empty or silent (every sample zero) the call
\* returns analysis_successful false with empty fault and pattern lists, and the
\* quality is reported as poor or failed.
C8_SilentIsFailure ==
    (Returned /\ Decoded /\ AllZero(audio_y))
        => /\ audio_result.analysis_successful = FALSE
           /\ audio_result.detected_faults = << >>
           /\ audio_result.sound_patterns = << >>
           /\ audio_result.audio_quality.rating \in {"poor", "failed"}

\* a silent, non-empty clip is analysed to the end and reported as a success
C8_Witness ==
    /\ Returned /\ a_path = "success"
    /\ NumSamples(audio_y) > 0 /\ AllZero(audio_y)
    /\ audio_result.analysis_successful
    /\ audio_result.audio_quality.rating = "poor"

\* C9: on every exit path (success, load failure, empty waveform, an exception at
\* any step after the temporary file was created, the write of the bytes included)
\* the temporary file of the call no longer exists when the call returns.
C9_TempFileRemoved ==
    Returned => temp_files = {}

\* the write of the bytes raised: the call has returned and the file is still there
C9_Witness ==
    /\ Returned /\ a_path = "write_raised"
    /\ temp_files # {}


----------------------------------------------------------------------------
(* Claims about analyze_dashboard_image *)

\* C7: for bytes that cannot be decoded as an image the call does not raise and
\* returns a complete result with dashboard_detected false, no detected lights and
\* zeroed scores: overall_confidence 0 and image_quality score 0.
C7_UndecodableIsZeroed ==
    (i_pc = "returned" /\ ~image_data.decodable)
        => /\ image_result.dashboard_detected = FALSE
           /\ image_result.detected_lights = << >>
           /\ image_result.overall_confidence.num = 0
           /\ image_result.image_quality.score = 0

\* bytes that are no image came back with a confidence of 0.3 and a quality of 0.5
C7_Witness ==
    /\ i_pc = "returned" /\ ~image_data.decodable
    /\ image_result.dashboard_detected = FALSE
    /\ image_result.overall_confidence = Frac(300, 1000)
    /\ image_result.image_quality.score = 50

----------------------------------------------------------------------------
(* Claims about the engine-sound request *)

Happened(step) == \E i \in DOMAIN events : events[i] = step

\* C10: when the declared content type or the filename fails validation, the
\* request ends with the validation failure, and the upload is never read, never
\* stored and never handed to analyze_engine_sound.
C10_RejectedBeforeDecoding ==
    (Happened("validate")
       /\ ~validate_audio_format(audio.content_type, audio.filename)[1])
        => /\ req_pc = "done"
           /\ response = HTTPException(400,
                            validate_audio_format(audio.content_type, audio.filename)[2])
           /\ ~Happened("read") /\ ~Happened("upload") /\ ~Happened("analyze")

\* a known user's upload declared as audio/wav but named e.mp3 was rejected
C10_Witness ==
    /\ req_pc = "done"
    /\ audio = [ content_type |-> AudioSlash \o << "w", "a", "v" >>,
                 filename |-> << "e" >> \o DotMp3 ]
    /\ events = << "verify_user", "validate" >>
    /\ response.status = 400


----------------------------------------------------------------------------
(* Claims about validate_audio_format *)

\* the six whitelisted content types, each with the extensions listed for it
Whitelist ==
    { << AudioSlash \o << "w", "a", "v" >>, ".wav" >>,
      << AudioSlash \o << "m", "p", "e", "g" >>, ".mp3" >>,
      << AudioSlash \o << "m", "p", "4" >>, ".m4a" >>,
      << AudioSlash \o << "x", "-", "m", "4", "a" >>, ".m4a" >>,
      << AudioSlash \o << "o", "g", "g" >>, ".ogg" >>,
      << AudioSlash \o << "f", "l", "a", "c" >>, ".flac" >> }

\* the lower-cased extension of each filename of the model, written out by hand
LowerCasedExtension(filename) ==
    CASE filename = << "e" >> \o DotWav -> ".wav"
      [] filename = << "e", ".", "W", "A", "V" >> -> ".wav"
      [] filename = << "e" >> \o DotMp3 -> ".mp3"
      [] filename = << "e" >> \o DotM4a -> ".m4a"
      [] filename = << "e", ".", "M", "4", "A" >> -> ".m4a"
      [] filename = << "e" >> \o DotOgg -> ".ogg"
      [] filename = << "e" >> \o DotFlac -> ".flac"
      [] filename = << "e", ".", "w", "a", "v", ".", "t", "x", "t" >> -> ".txt"
      [] OTHER -> ""

NoFilename(filename) == filename = None \/ filename = << >>

\* C11: validate_audio_format returns valid exactly when content_type is one of the
\* six whitelisted types and either no filename is given or the lower-cased
\* extension of the filename is listed for that type; otherwise it returns
\* (False, message), a missing content type included, and it never raises.
C11_ValidExactlyWhenWhitelisted ==
    val_result # NoResult =>
        /\ Len(val_result) = 2
        /\ val_result[1] \in BOOLEAN
        /\ val_result[1] =
              \E w \in Whitelist :
                  /\ w[1] = val_input.content_type
                  /\ \/ NoFilename(val_input.filename)
                     \/ LowerCasedExtension(val_input.filename) = w[2]
        /\ ~val_result[1] => val_result[2] # "Valid audio format"

\* audio/wav with the filename e.WAV was accepted
C11_Witness ==
    /\ val_result # NoResult
    /\ val_input = [ content_type |-> AudioSlash \o << "w", "a", "v" >>,
                     filename |-> << "e", ".", "W", "A", "V" >> ]
    /\ val_result[1] = TRUE

----------------------------------------------------------------------------
(* Claims about _remove_overlapping_lights *)

DedupDone == dedup_pc = "done"

Kept(light) == \E k \in DOMAIN kept_lights : kept_lights[k] = light

\* the centres are less than 30 pixels apart
Within30(a, b) ==
    (a.position.x - b.position.x) * (a.position.x - b.position.x)
      + (a.position.y - b.position.y) * (a.position.y - b.position.y) < 900

\* the centres are more than 30 pixels apart
Beyond30(a, b) ==
    (a.position.x - b.position.x) * (a.position.x - b.position.x)
      + (a.position.y - b.position.y) * (a.position.y - b.position.y) > 900

\* C12, as stated: when two candidate lights have centres less than 30 pixels
\* apart, exactly one of the two is kept, and it is the one with the higher
\* confidence.
C12_Original ==
    DedupDone =>
        \A i, j \in DOMAIN candidate_lights :
            LET a == candidate_lights[i]
                b == candidate_lights[j]
            IN  (a # b /\ Within30(a, b))
                    => /\ Kept(a) # Kept(b)
                       /\ Kept(a) => a.confidence >= b.confidence
                       /\ Kept(b) => b.confidence >= a.confidence

\* C12, amended: when the candidates are exactly two lights with centres less than
\* 30 pixels apart, exactly one light is returned, the one with the higher
\* confidence (the first of the two when the confidences are equal); whatever the
\* candidates, no two returned lights have centres less than 30 pixels apart.
C12_PairCollapses ==
    DedupDone =>
        /\ (Len(candidate_lights) = 2
              /\ Within30(candidate_lights[1], candidate_lights[2]))
               => kept_lights =
                    << IF candidate_lights[2].confidence > candidate_lights[1].confidence
                       THEN candidate_lights[2] ELSE candidate_lights[1] >>
        /\ \A i, j \in DOMAIN kept_lights :
               i # j => ~Within30(kept_lights[i], kept_lights[j])

\* two candidates 20 pixels apart, the weaker one first: only the stronger came back
C12_Witness ==
    /\ DedupDone
    /\ Len(candidate_lights) = 2
    /\ Within30(candidate_lights[1], candidate_lights[2])
    /\ candidate_lights[1].confidence < candidate_lights[2].confidence
    /\ kept_lights = << candidate_lights[2] >>

\* C13: in the output any two distinct lights have centres strictly more than 30
\* pixels apart: a light exactly 30 pixels from a kept light is not kept.
C13_StrictlyBeyond30 ==
    DedupDone =>
        \A i, j \in DOMAIN kept_lights :
            i # j => Beyond30(kept_lights[i], kept_lights[j])

\* lights at (0, 0) and (18, 24), exactly 30 pixels apart, were both kept
C13_Witness ==
    /\ DedupDone
    /\ Len(kept_lights) = 2
    /\ { kept_lights[1].position, kept_lights[2].position }
         = { [ x |-> 0, y |-> 0 ], [ x |-> 18, y |-> 24 ] }

----------------------------------------------------------------------------
(* Claims about _detect_color_lights and _calculate_light_confidence *)

LightsDone == lights_pc = "done"

\* a contour with 50 < area < 500, 0.5 < aspect ratio < 2.0 and brightness > 0.6
WellFormed(r) ==
    /\ 50 < r.area /\ r.area < 500
    /\ r.h > 0 /\ r.h < 2 * r.w /\ r.w < 2 * r.h
    /\ 10 * r.mean_v > 6 * 255

\* the colours whose mask lets the hue through: red is 0-10 and 170-180, yellow
\* 20-30, orange 10-20, green 40-80, blue 100-130, amber 15-25
MaskColours(hue) ==
    (IF hue \in (0..10) \cup (170..180) THEN {"red"} ELSE {})
    \cup (IF hue \in 20..30 THEN {"yellow"} ELSE {})
    \cup (IF hue \in 10..20 THEN {"orange"} ELSE {})
    \cup (IF hue \in 40..80 THEN {"green"} ELSE {})
    \cup (IF hue \in 100..130 THEN {"blue"} ELSE {})
    \cup (IF hue \in 15..25 THEN {"amber"} ELSE {})

ReportedAs(r, colour) ==
    \E k \in DOMAIN reported_lights :
        /\ reported_lights[k].color = colour
        /\ reported_lights[k].position = r.position
        /\ reported_lights[k].area = r.area

\* C14: an image whose only coloured region is one red region of area 200, aspect
\* ratio 1.0 and brightness 0.8 yields exactly one light, red, critical, with
\* confidence above 0.5; every contour with 50 < area < 500, 0.5 < aspect ratio <
\* 2.0 and brightness > 0.6 is reported, and a red light is always critical.
C14_RedRegionIsOneCriticalLight ==
    LightsDone =>
        /\ (Len(regions) = 1 /\ "red" \in MaskColours(regions[1].hue)
              /\ regions[1].area = 200 /\ regions[1].w = regions[1].h
              /\ regions[1].h > 0 /\ regions[1].mean_v = 204)
             => /\ Len(warning_lights) = 1
                /\ warning_lights[1].color = "red"
                /\ warning_lights[1].severity = "critical"
                /\ warning_lights[1].confidence > 50
        /\ \A k \in DOMAIN regions :
               WellFormed(regions[k])
                  => \A colour \in MaskColours(regions[k].hue) :
                         ReportedAs(regions[k], colour)
        /\ \A k \in DOMAIN reported_lights :
               reported_lights[k].color = "red"
                  => reported_lights[k].severity = "critical"

\* a red region of hue 10, seen by the red and the orange mask, came back as one
\* red critical light
C14_Witness ==
    /\ LightsDone
    /\ Len(regions) = 1 /\ regions[1].hue = 10 /\ regions[1].area = 200
    /\ regions[1].w = regions[1].h /\ regions[1].h > 0 /\ regions[1].mean_v = 204
    /\ Len(reported_lights) = 2
    /\ Len(warning_lights) = 1
    /\ warning_lights[1].color = "red" /\ warning_lights[1].severity = "critical"
    /\ warning_lights[1].confidence = 100

\* the scores of the stated bands, in hundredths, added as numbers
StatedScore(r) ==
    (IF 50 < r.area /\ r.area < 500 THEN 40
     ELSE IF 20 < r.area /\ r.area < 1000 THEN 20 ELSE 0)
    + (IF r.h > 0 /\ r.h < 2 * r.w /\ r.w < 2 * r.h THEN 30
       ELSE IF r.h > 0 /\ 3 * r.h < 10 * r.w /\ r.w < 3 * r.h THEN 10 ELSE 0)
    + (IF 10 * r.mean_v > 6 * 255 THEN 30
       ELSE IF 10 * r.mean_v > 4 * 255 THEN 20
       ELSE IF 10 * r.mean_v > 2 * 255 THEN 10 ELSE 0)

\* C20: a contour is reported exactly when its area lies in (20, 2000) and the sum
\* of its area, aspect-ratio and brightness scores is strictly greater than 0.3; a
\* sum of exactly 0.3 is rejected, and every reported light has confidence in
\* (0.3, 1.0].
C20_ReportedExactlyAboveThreshold ==
    LightsDone =>
        /\ Len(regions) = 1 =>
              \A colour \in MaskColours(regions[1].hue) :
                  ReportedAs(regions[1], colour)
                    <=> (20 < regions[1].area /\ regions[1].area < 2000
                           /\ StatedScore(regions[1]) > 30)
        /\ \A k \in DOMAIN reported_lights :
               reported_lights[k].confidence > 30 /\ reported_lights[k].confidence <= 100

\* a contour of area 30 (0.2), aspect ratio 0.4 (0.1) and brightness 0.2 (0) was
\* reported, with confidence 0.3
C20_Witness ==
    /\ LightsDone
    /\ Len(regions) = 1 /\ regions[1].hue = 5
    /\ regions[1].area = 30 /\ regions[1].w = 4 /\ regions[1].h = 10
    /\ regions[1].mean_v = 51
    /\ Len(reported_lights) = 1
    /\ reported_lights[1].confidence = 30

----------------------------------------------------------------------------
(* The rattle scenario of the fault matcher *)

\* the mid band holds more energy than every other band
MidDominant(bands) ==
    /\ DOMAIN bands = BandNames
    /\ \A b \in BandNames \ {"mid"} : bands["mid"] > bands[b]

\* dominant frequency 1500 Hz, peaks only at 1500 Hz, mid band dominant and exactly
\* one pattern, rhythmic, of strength above 0.4
RattleScenario ==
    /\ fm_pc = "done"
    /\ Get(frequency_analysis, "dominant_frequency", 0) = 1500
    /\ Get(frequency_analysis, "peak_frequencies", << >>) = << 1500 >>
    /\ MidDominant(Get(frequency_analysis, "frequency_bands", ZeroBands))
    /\ Len(sound_patterns) = 1
    /\ sound_patterns[1].pattern_type = "rhythmic"
    /\ sound_patterns[1].strength > 4

\* C15: with a dominant frequency of 1500 Hz, peaks only at 1500 Hz, the mid band
\* above every other band and exactly one pattern, rhythmic with strength > 0.4, the
\* first candidate is timing_chain_rattle or valve_lifter_noise and its confidence is
\* greater than 0.4.
C15_RattleRankedFirst ==
    RattleScenario =>
        /\ detected_faults # << >>
        /\ detected_faults[1].name \in {"timing_chain_rattle", "valve_lifter_noise"}
        /\ detected_faults[1].confidence > 120

\* the scenario with high_mid below sub_bass: valve_lifter_noise alone is on top,
\* and timing_chain_rattle is ranked below spark_plug_misfire
C15_Witness ==
    /\ RattleScenario
    /\ frequency_analysis.frequency_bands["high_mid"] < frequency_analysis.frequency_bands["sub_bass"]
    /\ detected_faults[1].name = "valve_lifter_noise"
    /\ \E i, j \in DOMAIN detected_faults :
          /\ i < j
          /\ detected_faults[i].name = "spark_plug_misfire"
          /\ detected_faults[j].name = "timing_chain_rattle"

----------------------------------------------------------------------------
(* What the band-energy rules add *)

\* the four rule families as the claim states them
StatedBandRule(fault_name, bands) ==
    \/ fault_name \in {"spark_plug_misfire", "valve_lifter_noise"}
          /\ bands["mid"] > bands["bass"]
    \/ fault_name \in {"timing_chain_rattle", "engine_knock"}
          /\ bands["high_mid"] > bands["sub_bass"]
    \/ fault_name \in {"serpentine_belt_squeal", "brake_pad_squeal"}
          /\ 10 * bands["presence"] > 3 * SumBands(bands)
    \/ fault_name \in {"worn_engine_bearings", "exhaust_leak"}
          /\ bands["bass"] > bands["presence"]

\* what the band energies added to the accumulated confidence of one signature: the
\* accumulated confidence of the call less that of the same call without band energies
BandGain(fault_name) ==
    accumulated[fault_name]
      - Accumulate(fault_name, [frequency_analysis EXCEPT !.frequency_bands = ZeroBands],
                   sound_patterns)

BandsGiven ==
    /\ fm_pc = "done"
    /\ "frequency_bands" \in DOMAIN frequency_analysis
    /\ frequency_analysis.frequency_bands # ZeroBands

\* C19: whenever the band-energy rule of a signature fires it adds exactly 0.2 to the
\* accumulated confidence, for each of the four rule families (the two squeal faults
\* included); cv_joint_clicking and turbo_whistle gain nothing from band energy.
C19_BandRuleAddsOneFifth ==
    BandsGiven =>
        \A n \in FaultNames :
            BandGain(n) = IF StatedBandRule(n, frequency_analysis.frequency_bands)
                          THEN 60 ELSE 0

\* presence holds more than 30% of the energy and the squeal rule added 0.3
C19_Witness ==
    /\ BandsGiven
    /\ StatedBandRule("serpentine_belt_squeal", frequency_analysis.frequency_bands)
    /\ BandGain("serpentine_belt_squeal") = 90
    /\ BandGain("brake_pad_squeal") = 90
    /\ BandGain("turbo_whistle") = 0

----------------------------------------------------------------------------
(* The overall confidence of a completed audio analysis *)

RECURSIVE Gcd(_, _)
Gcd(a, b) == IF b = 0 THEN a ELSE Gcd(b, a % b)

Abs(a) == IF a < 0 THEN -a ELSE a

\* exact rational arithmetic on fractions in lowest terms
Rat(n, d) == LET g == Gcd(Abs(n), d) IN Frac(n \div g, d \div g)
RatAdd(a, b) == Rat(a.num * b.den + b.num * a.den, a.den * b.den)
RatMul(a, b) == Rat(a.num * b.num, a.den * b.den)
\* two fractions are equal when their lowest terms are
RatEq(a, b) == Rat(a.num, a.den) = Rat(b.num, b.den)
RatMin(a, b) == IF a.num * b.den <= b.num * a.den THEN a ELSE b

RECURSIVE RatSum(_)
RatSum(seq) == IF seq = << >> THEN Rat(0, 1) ELSE RatAdd(Head(seq), RatSum(Tail(seq)))

RatMean(seq) == RatMul(RatSum(seq), Rat(1, Len(seq)))

\* min(1.0, quality_score x 0.3 + F + D + P) for a result dict r
StatedConfidence(r) ==
    LET quality == Rat(r.audio_quality.score, 1000)
        weighted == [ i \in DOMAIN r.detected_faults |->
                        RatMul(Rat(r.detected_faults[i].confidence, ConfOne),
                               IF r.detected_faults[i].severity = "critical"
                               THEN Rat(1, 1) ELSE Rat(8, 10)) ]
        strengths == [ j \in DOMAIN r.sound_patterns |->
                         Rat(r.sound_patterns[j].strength, StrengthOne) ]
        F == IF r.detected_faults # << >> THEN RatMul(Rat(4, 10), RatMean(weighted))
             ELSE Rat(2, 10)
        D == IF Get(r.frequency_analysis, "dominant_frequency", 0) > 0
             THEN Rat(2, 10) ELSE Rat(0, 1)
        P == IF r.sound_patterns # << >> THEN RatMul(Rat(1, 10), RatMean(strengths))
             ELSE Rat(0, 1)
    IN  RatMin(Rat(1, 1), RatAdd(RatAdd(RatMul(quality, Rat(3, 10)), F), RatAdd(D, P)))

SuccessfulAnalysis == Returned /\ a_path = "success" /\ audio_result.analysis_successful

\* C17: for a successful audio analysis, overall_confidence equals
\* min(1.0, quality_score x 0.3 + F + D + P), with F = 0.4 x the mean over all
\* candidates of confidence x (1.0 if critical else 0.8), or 0.2 when there is no
\* candidate; D = 0.2 if the dominant frequency is greater than 0, else 0; P = 0.1 x
\* the mean pattern strength, or 0 when there is no pattern. A quality score of -inf
\* makes both sides -inf.
C17_ConfidenceFormula ==
    SuccessfulAnalysis =>
        IF audio_result.audio_quality.score = NegInf
        THEN audio_result.overall_confidence.num = NegInf
        ELSE RatEq(audio_result.overall_confidence, StatedConfidence(audio_result))

\* a successful analysis with critical and non-critical candidates, a dominant
\* frequency, several patterns and a confidence strictly between 0 and 1
C17_Witness ==
    /\ SuccessfulAnalysis
    /\ audio_result.audio_quality.score # NegInf
    /\ \E i, j \in DOMAIN audio_result.detected_faults :
          /\ audio_result.detected_faults[i].severity = "critical"
          /\ audio_result.detected_faults[j].severity # "critical"
          /\ audio_result.detected_faults[i].confidence
               # audio_result.detected_faults[j].confidence
    /\ Len(audio_result.sound_patterns) > 1
    /\ audio_result.frequency_analysis.dominant_frequency > 0
    /\ audio_result.overall_confidence.num > 0
    /\ audio_result.overall_confidence.num < audio_result.overall_confidence.den

----------------------------------------------------------------------------
(* The keywords of the tutorial search *)

Searched == search_keywords # NoResult

\* C18: in the engine-sound request flow the keyword list handed to the tutorial
\* search is exactly the repair_keywords list of the core audio analysis of that
\* request, whatever the narration service returned.
C18_SearchUsesCoreKeywords ==
    Searched => search_keywords = audio_analysis.repair_keywords

\* the narration service returned keywords of its own and these were searched
C18_Witness ==
    /\ Searched
    /\ audio_analysis.detected_faults # << >>
    /\ search_keywords = gemini_analysis.repair_keywords
    /\ search_keywords.drawn_from \cap audio_analysis.repair_keywords.drawn_from = {}

----------------------------------------------------------------------------
(* The static tables *)

\* C16: no analysis call modifies the static tables: after any sequence and any
\* interleaving of analyze_engine_sound, validate_audio_format and
\* analyze_dashboard_image calls, the fault-signature table, the supported-format
\* table and the colour-range table equal their values at initialization.
C16_TablesNeverModified ==
    /\ self_engine_fault_patterns = engine_fault_patterns
    /\ self_supported_formats = supported_formats
    /\ self_color_ranges = color_ranges

\* two calls overlap: one has gathered the keywords of several faults through their
\* references into the table while a validation has completed
C16_Witness ==
    \E c, d \in CallIds :
        /\ calls[c].op = "analyze_engine_sound" /\ calls[c].pc = "done"
        /\ Len(calls[c].faults) > 1
        /\ Len(calls[c].keywords) = 3 * Len(calls[c].faults)
        /\ calls[d].op = "validate_audio_format" /\ calls[d].pc = "done"

----------------------------------------------------------------------------
(* A sub-analysis that fails inside *)

FailureMarker == [ analysis_failed |-> TRUE ]

\* the waveform loaded and is not empty, one of the five sub-analyses failed inside
\* and no other statement raised
OneSubAnalysisFailed ==
    /\ Returned /\ Decoded /\ NumSamples(audio_y) > 0
    /\ a_path # "step_raised"
    /\ parts.failed \in {"frequency", "patterns", "faults", "decibel", "anomaly"}

\* the sub-result of the named sub-analysis is its neutral default
IsNeutral(r, part) ==
    CASE part = "frequency" -> r.frequency_analysis = FailureMarker
      [] part = "patterns" -> r.sound_patterns = << >>
      [] part = "faults" -> r.detected_faults = << >>
      [] part = "decibel" -> r.decibel_analysis = FailureMarker
      [] part = "anomaly" -> r.anomaly_analysis = FailureMarker

\* C21: if the waveform loads and is non-empty but one sub-analysis (frequency
\* spectrum, sound patterns, fault matching, decibel levels or anomaly duration)
\* fails internally, analyze_engine_sound still returns analysis_successful = true
\* and processing_successful = true, and only the failed sub-result is replaced by
\* its neutral default: the others are what their analyses computed.
C21_OneFailureIsContained ==
    OneSubAnalysisFailed =>
        /\ audio_result.analysis_successful
        /\ audio_result.analysis_metadata.processing_successful
        /\ IsNeutral(audio_result, parts.failed)
        /\ audio_result.audio_quality = _analyze_audio_quality(audio_y)
        /\ parts.failed # "frequency" => audio_result.frequency_analysis # FailureMarker
        /\ parts.failed # "decibel" => audio_result.decibel_analysis # FailureMarker
        /\ parts.failed # "anomaly" => audio_result.anomaly_analysis # FailureMarker
        /\ parts.failed # "faults" =>
              audio_result.detected_faults
                = _detect_engine_faults(audio_result.frequency_analysis,
                                        audio_result.sound_patterns)

\* the pattern detection failed; the frequency analysis was still computed and the
\* fault matcher still found candidates from it
C21_Witness ==
    /\ OneSubAnalysisFailed
    /\ parts.failed = "patterns"
    /\ audio_result.sound_patterns = << >>
    /\ audio_result.frequency_analysis.dominant_frequency > 0
    /\ audio_result.detected_faults # << >>
    /\ audio_result.analysis_metadata.processing_successful

----------------------------------------------------------------------------
(* Failures inside the pattern detectors *)

PatternsDone == pat_pc = "done"

Listed(detector) ==
    \E i \in DOMAIN pattern_list : pattern_list[i].pattern_type = detector

\* the detector a failure belongs to: the detector itself, or the one whose input
\* feature failed
Affected(detector) ==
    pat_failure = detector \/ pat_failure = FeatureOf[detector]

\* C22: a failure inside any one of the five pattern detectors, including a failure
\* while computing that detector's own input features, degrades only that detector
\* to strength 0: every other detector whose strength exceeds its threshold still
\* appears in the pattern list returned by _detect_sound_patterns.
C22_DetectorFailureIsContained ==
    (PatternsDone /\ \E d \in Detectors : Affected(d)) =>
        \A d \in Detectors :
            (~Affected(d) /\ pat_strengths[d] > PatternThreshold[d]) => Listed(d)

\* computing chroma, the input of the harmonic detector, raised: the rhythmic
\* pattern, above its threshold, is not in the returned list
C22_Witness ==
    /\ PatternsDone
    /\ pat_failure = "chroma"
    /\ pat_strengths["rhythmic"] > PatternThreshold["rhythmic"]
    /\ pattern_list = << >>

----------------------------------------------------------------------------
(* Quality issues and their recommendations *)

\* every recommendation _get_quality_recommendations can give
Recommendations ==
    { "Consider re-recording in a quieter environment",
      "Record closer to engine with less background noise",
      "Reduce recording volume to avoid distortion",
      "Record for at least 5-10 seconds for better analysis",
      "Ensure engine is running during recording" }

\* the remediation suggestions fixed to an issue
FixedRemediation ==
    [ noise |-> [ issue |-> "High background noise",
                  suggestions |-> {"Record closer to engine with less background noise"} ],
      clipping |-> [ issue |-> "Audio clipping detected",
                     suggestions |-> {"Reduce recording volume to avoid distortion"} ],
      short |-> [ issue |-> "Recording too short for reliable analysis",
                  suggestions |-> {"Record for at least 5-10 seconds for better analysis"} ],
      silence |-> [ issue |-> "Too much silence in recording",
                    suggestions |-> {"Ensure engine is running during recording"} ] ]

\* for low dynamic range: any recommendation that is not the suggestion of another
\* issue nor the one given for a low score
Remediation ==
    { FixedRemediation[k] : k \in DOMAIN FixedRemediation }
    \cup { [ issue |-> "Low dynamic range",
             suggestions |-> Recommendations
                               \ ({"Consider re-recording in a quieter environment"}
                                  \cup UNION { FixedRemediation[k].suggestions :
                                                 k \in DOMAIN FixedRemediation }) ] }

\* a completed analysis whose quality assessment did not itself fail
QualityAssessed ==
    /\ SuccessfulAnalysis
    /\ parts.failed # "quality"

\* C23: for each of the five audio-quality issues (high background noise, low
\* dynamic range, clipping, too much silence, recording too short), whenever the
\* issue is in the issues list of the quality result, the recommendations list of
\* the same result contains the fixed remediation suggestion for that issue.
C23_EveryIssueHasItsRemediation ==
    QualityAssessed =>
        \A r \in Remediation :
            Contains(audio_result.audio_quality.issues, r.issue)
                => \E x \in r.suggestions :
                       Contains(audio_result.audio_quality.recommendations, x)

\* the only issue is a low dynamic range and there is no recommendation at all
C23_Witness ==
    /\ QualityAssessed
    /\ audio_result.audio_quality.issues = << "Low dynamic range" >>
    /\ audio_result.audio_quality.recommendations = << >>

----------------------------------------------------------------------------
(* The anomaly regions *)

AnomalyDone == anom_pc = "done"

\* the maximal runs of consecutive anomalous frames, as <<first, last>> (1-based)
MaximalRuns(flags) ==
    { run \in (DOMAIN flags) \X (DOMAIN flags) :
        /\ run[1] <= run[2]
        /\ \A i \in run[1]..run[2] : flags[i]
        /\ run[1] = 1 \/ ~flags[run[1] - 1]
        /\ run[2] = Len(flags) \/ ~flags[run[2] + 1] }

\* C24: for every sequence of per-frame anomaly flags the regions built by
\* _analyze_anomaly_duration are exactly the maximal runs of consecutive anomalous
\* frames, in increasing start time and pairwise disjoint, a run that reaches the
\* last frame included; the region durations sum to the number of anomalous frames
\* times hop/sample-rate; at most the first 10 regions are listed while
\* anomaly_count counts all of them.
C24_RegionsAreMaximalRuns ==
    AnomalyDone =>
        LET flags == AnomalousFrames(rms)
            runs == MaximalRuns(flags)
        IN  /\ Len(anomaly_regions) = Cardinality(runs)
            /\ { << anomaly_regions[i].start_time, anomaly_regions[i].duration >> :
                   i \in DOMAIN anomaly_regions }
                 = { << (run[1] - 1) * 512, (run[2] - run[1] + 1) * 512 >> : run \in runs }
            /\ \A i \in DOMAIN anomaly_regions :
                  i < Len(anomaly_regions) =>
                      anomaly_regions[i].start_time + anomaly_regions[i].duration
                        <= anomaly_regions[i + 1].start_time
            /\ SumSeq([ i \in DOMAIN anomaly_regions |-> anomaly_regions[i].duration ])
                 = 512 * Cardinality({ i \in DOMAIN flags : flags[i] })
            /\ anomaly_result.anomaly_count = Len(anomaly_regions)
            /\ Len(anomaly_result.anomaly_regions) <= 10
            /\ anomaly_result.anomaly_regions
                 = SubSeq(anomaly_regions, 1, Len(anomaly_result.anomaly_regions))
            /\ Len(anomaly_regions) <= 10
                  => anomaly_result.anomaly_regions = anomaly_regions

\* twelve runs, the last of which reaches the last frame; ten of them are listed
C24_Witness ==
    /\ AnomalyDone
    /\ AnomalousFrames(rms)[Len(rms)]
    /\ anomaly_result.anomaly_count = 12
    /\ Len(anomaly_result.anomaly_regions) = 10
    /\ anomaly_regions[12].start_time = (Len(rms) - 1) * 512

\* C28: every anomaly region reported by _analyze_anomaly_duration satisfies
\* end_time = start_time + duration, a region of anomalous frames that extends to
\* the end of the clip included.
C28_EndIsStartPlusDuration ==
    AnomalyDone =>
        \A i \in DOMAIN anomaly_result.anomaly_regions :
            anomaly_result.anomaly_regions[i].end_time
              = anomaly_result.anomaly_regions[i].start_time
                  + anomaly_result.anomaly_regions[i].duration

\* the last frame is anomalous: its region ends at len(y) / sr, before start_time +
\* duration
C28_Witness ==
    /\ AnomalyDone
    /\ anomaly_result.anomaly_regions # << >>
    /\ LET last == anomaly_result.anomaly_regions[Len(anomaly_result.anomaly_regions)]
       IN  /\ last.start_time + last.duration = Len(rms) * 512
           /\ last.end_time = audio_len
           /\ last.end_time < last.start_time + last.duration

----------------------------------------------------------------------------
(* The urgency of a dashboard analysis *)

\* red gives critical, yellow/orange/amber give warning, green/blue give normal
LevelOfColor(color) ==
    IF color = "red" THEN "critical"
    ELSE IF color \in {"yellow", "orange", "amber"} THEN "warning"
    ELSE "normal"

\* the most severe level over all the lights of a list
MostSevere(lights) ==
    LET levels == { LevelOfColor(lights[i].color) : i \in DOMAIN lights }
    IN  IF "critical" \in levels THEN "critical"
        ELSE IF "warning" \in levels THEN "warning"
        ELSE "normal"

\* C25: the urgency assigned to a dashboard analysis that has detected lights is the
\* most severe level over all detected lights, independent of their order: a list
\* that holds a yellow, orange or amber light and no red light always yields warning.
C25_MostSevereLight ==
    (dash_pc # "idle" /\ dash_lights # << >>) =>
        dash_analysis.urgency_level = MostSevere(dash_lights)

\* a validated answer for a yellow light followed by a green one is normal
C25_Witness ==
    /\ dash_pc = "validated"
    /\ dash_lights = << [ color |-> "yellow" ], [ color |-> "green" ] >>
    /\ dash_analysis.urgency_level = "normal"

----------------------------------------------------------------------------
(* The evidence of a candidate *)

\* C26: every candidate returned by _detect_engine_faults carries at least two
\* evidence strings from distinct rules: no single evidence source (dominant
\* frequency, matching peaks, band-energy rule, or one sound pattern of strength at
\* most 1, each pattern type occurring at most once) can by itself push a signature
\* above the 0.4 threshold.
C26_TwoEvidenceSources ==
    fm_pc = "done" =>
        \A i \in DOMAIN detected_faults :
            /\ Len(detected_faults[i].evidence) >= 2
            /\ Cardinality({ detected_faults[i].evidence[k] :
                               k \in DOMAIN detected_faults[i].evidence }) >= 2

\* a candidate with exactly two evidence strings: the band-energy rule (0.2) and a
\* rhythmic pattern of strength 1.0 (0.3)
C26_Witness ==
    /\ fm_pc = "done"
    /\ \E i \in DOMAIN detected_faults :
          /\ detected_faults[i].evidence = << "band_energy", "rhythmic" >>
          /\ detected_faults[i].confidence = 150

----------------------------------------------------------------------------
(* What _remove_overlapping_lights keeps and drops *)

Occurrences(seq, x) == Cardinality({ i \in DOMAIN seq : seq[i] = x })

\* C27: for every input list the output of _remove_overlapping_lights is a sub-list
\* of the input in non-increasing confidence order, and every input light that is
\* absent from the output lies less than 30 pixels from some kept light whose
\* confidence is at least its own.
C27_DroppedLightsAreCovered ==
    DedupDone =>
        /\ \A k \in DOMAIN kept_lights :
               /\ Occurrences(kept_lights, kept_lights[k])
                    <= Occurrences(candidate_lights, kept_lights[k])
               /\ k < Len(kept_lights)
                    => kept_lights[k].confidence >= kept_lights[k + 1].confidence
        /\ \A i \in DOMAIN candidate_lights :
               ~Kept(candidate_lights[i])
                  => \E k \in DOMAIN kept_lights :
                        /\ Within30(candidate_lights[i], kept_lights[k])
                        /\ kept_lights[k].confidence >= candidate_lights[i].confidence

\* three candidates in a row 20 pixels apart, the middle one the strongest: it alone
\* is kept and covers the two it displaced
C27_Witness ==
    /\ DedupDone
    /\ Len(candidate_lights) = 3
    /\ Len(kept_lights) = 1
    /\ kept_lights[1] = candidate_lights[2]
    /\ candidate_lights[2].confidence > candidate_lights[1].confidence
    /\ candidate_lights[1].position # candidate_lights[3].position
    /\ ~Within30(candidate_lights[1], candidate_lights[3])

----------------------------------------------------------------------------
(* Ties between close lights. candidate_lights is in the order the lights were *)
(* found: colour by colour in the order of color_ranges, contour by contour    *)
(* within a colour.                                                            *)

\* the candidates are one cluster: equal confidences, centres pairwise less than 30
\* pixels apart
OneCluster ==
    /\ Len(candidate_lights) >= 2
    /\ \A i, j \in DOMAIN candidate_lights :
          /\ candidate_lights[i].confidence = candidate_lights[j].confidence
          /\ Within30(candidate_lights[i], candidate_lights[j])

----------------------------------------------------------------------------
(* Claims about what the two diagnosis requests save *)

\* C30: in both diagnosis request flows (dashboard image and engine sound) a
\* diagnostic record with status completed is saved only for a request whose core
\* analysis succeeded; a request whose core analysis failed never reaches the save
\* steps.
C30_SavedOnlyAfterSuccessfulAnalysis ==
    /\ (req_pc = "save" \/ Contains(events, "save"))
          => /\ Get(audio_analysis, "analysis_successful", FALSE)
             /\ ~Get(audio_analysis, "analysis_failed", FALSE)
    /\ (drq_pc \in {"save_record", "save_result"} \/ saved_records # << >>)
          => Get(Get(image_analysis, "analysis_metadata", NoResult),
                 "processing_successful", FALSE)

\* a known user uploaded bytes that are no picture: the analysis came back with
\* processing_successful false and a completed record was saved
C30_Witness ==
    /\ drq_pc = "done"
    /\ drq_response.status = 200
    /\ ~image_upload.data.decodable
    /\ image_analysis = ImageAnalysisFailed
    /\ Len(saved_records) = 1
    /\ saved_records[1].status = "completed"

====
